---------------------------- MODULE Spec2Model ----------------------------
(***************************************************************************)
(* Statistics and scoring aggregation of the Oracle HCM analysis platform: *)
(* OracleHCMAnalyzer._calculate_statistics (src/src/analysis_engine.py)    *)
(* and the derived analyses of ReportGenerator                             *)
(* (src/src/utils/report_generator.py): risk assessment, ROI analysis and  *)
(* compliance summary; also the page generator, the best-practice rules    *)
(* and the roadmap builders of the analyzer and of the report generator.   *)
(*                                                                         *)
(* Numbers.  Scores and load times are two-decimal values in the program   *)
(* (the generator rounds every one of them to 2 decimals); the model keeps *)
(* them as integers counted in hundredths (0.7 is 70, 3.0 s is 300).  Risk *)
(* penalties are counted in tenths (0.3 is 3).  A quotient the code leaves *)
(* unrounded is kept as the fraction [num, den].                           *)
(***************************************************************************)
EXTENDS Integers, Sequences, FiniteSets

VARIABLES
    pages,               \* List[PageAnalysis] of the session
    features,            \* List[FeatureAnalysis] of the session
    best_practices,      \* List[BestPractice] of the session
    generation,          \* outcome of _generate_best_practices
    fp_tie_up,           \* direction round() takes on a decimal tie (see round2)
    stats,               \* outcome of _calculate_statistics
    other_stats,         \* outcome of _calculate_statistics on a second analyzer
    risk_assessment,     \* outcome of _generate_risk_assessment
    roi_analysis,        \* outcome of _generate_roi_analysis
    roi_buckets,         \* its local roi_data as the bucketing loop leaves it
    compliance_summary,  \* outcome of _generate_compliance_summary
    implementation_roadmap,  \* outcome of the analyzer's roadmap builder
    report_roadmap,      \* outcome of the report generator's roadmap builder
    page_args,           \* (page_name, module, page_id) given to the generator
    hash_order,          \* order the running process's str hashes put words in
    today,               \* date of the system clock, in days
    first_page,          \* outcome of a first _create_page_analysis(page_args)
    second_page,         \* outcome of a second _create_page_analysis(page_args)
    pc,                  \* position of the run in analyze_system / generate_reports
    hash_salt,           \* salt the running process's str hashes are keyed with
    loop_page_id,        \* the local page_id of _analyze_pages
    loop_feature_id,     \* the local feature_id of _analyze_features
    feature_loop,        \* page and i its nested loops over the pages are at
    session,             \* outcome of analyze_system
    report_files,        \* the local report_files of generate_reports
    reports_dir,         \* the files written to the reports directory
    reports              \* outcome of generate_reports

vars == <<pages, features, best_practices, generation, fp_tie_up,
          stats, other_stats, risk_assessment, roi_analysis, roi_buckets,
          compliance_summary, implementation_roadmap, report_roadmap,
          page_args, hash_order, today, first_page, second_page,
          pc, hash_salt, loop_page_id, loop_feature_id, feature_loop, session,
          report_files, reports_dir, reports>>

inputs == <<pages, features, best_practices, fp_tie_up>>

\* The outcomes of the roadmap builders.
roadmaps == <<implementation_roadmap, report_roadmap>>

\* The page generator: its arguments, its environment and its outcomes.
generator == <<page_args, hash_order, today, first_page, second_page>>

\* One run of the application: analysis, then report generation.
workflow == <<pc, hash_salt, loop_page_id, loop_feature_id, feature_loop, session,
              report_files, reports_dir, reports>>

-----------------------------------------------------------------------------
(* Bounds of the model *)

\* Total number of records (pages + features + best practices) of a session.
MaxRecords == 3

-----------------------------------------------------------------------------
(* Outcomes of a call *)

NotCalled == [status |-> "not_called"]

Returned(v) == [status |-> "returned", value |-> v]

Raised(e) == [status |-> "raised", error |-> e]

-----------------------------------------------------------------------------
(* Sequence helpers: Python's sum(...) and len([... if ...]) *)

\* The sum is taken by halves, which keeps the evaluation of a long list
\* shallow; on integers the order of the additions does not matter.
RECURSIVE SumSeq(_)
SumSeq(s) ==
    IF s = <<>> THEN 0
    ELSE IF Len(s) = 1 THEN s[1]
    ELSE SumSeq(SubSeq(s, 1, Len(s) \div 2))
           + SumSeq(SubSeq(s, (Len(s) \div 2) + 1, Len(s)))

Map(s, F(_)) == [i \in 1..Len(s) |-> F(s[i])]

Count(s, P(_)) == Len(SelectSeq(s, P))

\* A fraction a / b the code computes with float division and does not round.
Frac(a, b) == [num |-> a, den |-> b]

Zero == Frac(0, 1)

\* round(num / den, 2) counted in hundredths, for num / den already counted in
\* hundredths: the nearest integer to num / den.  When num / den lies exactly
\* half way between two hundredths, the float the program rounds is the binary
\* neighbour of that decimal, which may lie on either side of it
\* (round(0.015, 2) = 0.01, round(0.025, 2) = 0.03): the direction is fixed
\* for a run by fp_tie_up and both directions are explored.
round2(num, den) ==
    LET q == num \div den
        r == num % den
    IN  IF 2 * r < den THEN q
        ELSE IF 2 * r > den THEN q + 1
        ELSE IF fp_tie_up THEN q + 1 ELSE q

-----------------------------------------------------------------------------
(* Records of the session *)

\* cost_estimate strings are sequences of characters.
Cost15to25 == <<"$","1","5",",","0","0","0"," ","-"," ","$","2","5",",","0","0","0">>
Cost30to50 == <<"$","3","0",",","0","0","0"," ","-"," ","$","5","0",",","0","0","0">>
Cost20to35 == <<"$","2","0",",","0","0","0"," ","-"," ","$","3","5",",","0","0","0">>
Cost25to40 == <<"$","2","5",",","0","0","0"," ","-"," ","$","4","0",",","0","0","0">>
Cost35to60 == <<"$","3","5",",","0","0","0"," ","-"," ","$","6","0",",","0","0","0">>
CostSingle == <<"$","1","5",",","0","0","0">>
CostZero   == <<"$","0">>
CostTBD    == <<"T","B","D">>

\* The best practices the analyzer's rules build.
OptimizePageLoadTimes ==
    [title |-> "Optimize Page Load Times", category |-> "Performance",
     priority |-> 4, business_impact |-> "high", estimated_effort |-> "medium",
     timeline |-> "4-6 weeks", cost_estimate |-> Cost15to25]

ImplementRBAC ==
    [title |-> "Implement Role-Based Access Control", category |-> "Security",
     priority |-> 5, business_impact |-> "high", estimated_effort |-> "high",
     timeline |-> "8-12 weeks", cost_estimate |-> Cost30to50]

ImproveMobileResponsiveness ==
    [title |-> "Improve Mobile Responsiveness", category |-> "Usability",
     priority |-> 3, business_impact |-> "medium", estimated_effort |-> "medium",
     timeline |-> "6-8 weeks", cost_estimate |-> Cost20to35]

StandardizeAPIDesign ==
    [title |-> "Standardize API Design", category |-> "Integration",
     priority |-> 4, business_impact |-> "medium", estimated_effort |-> "medium",
     timeline |-> "6-10 weeks", cost_estimate |-> Cost25to40]

AchieveWCAGCompliance ==
    [title |-> "Achieve WCAG 2.1 AA Compliance", category |-> "Accessibility",
     priority |-> 3, business_impact |-> "medium", estimated_effort |-> "high",
     timeline |-> "10-16 weeks", cost_estimate |-> Cost35to60]

\* Best practices a caller may pass: three the rules build, and three with
\* other priorities, impact labels and cost strings.
SampleBestPractices ==
    { OptimizePageLoadTimes, ImplementRBAC, ImproveMobileResponsiveness,
      [title |-> "Single amount", category |-> "Custom",
       priority |-> 1, business_impact |-> "low", estimated_effort |-> "low",
       timeline |-> "2 weeks", cost_estimate |-> CostSingle],
      [title |-> "No estimate yet", category |-> "Custom",
       priority |-> 2, business_impact |-> "unknown", estimated_effort |-> "low",
       timeline |-> "2 weeks", cost_estimate |-> CostTBD],
      [title |-> "Free of charge", category |-> "Custom",
       priority |-> 6, business_impact |-> "high", estimated_effort |-> "low",
       timeline |-> "2 weeks", cost_estimate |-> CostZero] }

\* Pages a caller may pass.  Values sit on, just above and just below the
\* thresholds the aggregation and the reports compare with, and the risk
\* scores of the pages are 1.0, 0.1, 0.7, 0.4 and 0.0.
ScenarioPage ==
    [title |-> "Salary Planning", module |-> "Compensation",
     complexity_score |-> 90, load_time |-> 400, technical_debt |-> 72,
     accessibility_score |-> 60, mobile_friendly |-> FALSE, seo_score |-> 50,
     workflows |-> <<"Approval Workflow">>]

ThresholdPage ==
    [title |-> "Goal Management", module |-> "Performance",
     complexity_score |-> 70, load_time |-> 300, technical_debt |-> 50,
     accessibility_score |-> 70, mobile_friendly |-> TRUE, seo_score |-> 80,
     workflows |-> <<"Approval Workflow">>]

JustOverPage ==
    [title |-> "Job Requisitions", module |-> "Recruitment",
     complexity_score |-> 71, load_time |-> 301, technical_debt |-> 50,
     accessibility_score |-> 69, mobile_friendly |-> TRUE, seo_score |-> 81,
     workflows |-> <<"Approval Workflow">>]

SlowPage ==
    [title |-> "Course Catalog", module |-> "Learning",
     complexity_score |-> 15, load_time |-> 325, technical_debt |-> 12,
     accessibility_score |-> 79, mobile_friendly |-> TRUE, seo_score |-> 62,
     workflows |-> <<>>]

CleanPage ==
    [title |-> "Employee Self Service", module |-> "Core HR",
     complexity_score |-> 10, load_time |-> 50, technical_debt |-> 8,
     accessibility_score |-> 80, mobile_friendly |-> TRUE, seo_score |-> 90,
     workflows |-> <<"Approval Workflow">>]

SamplePages == {ScenarioPage, ThresholdPage, JustOverPage, SlowPage, CleanPage}

\* Features a caller may pass; the last carries labels outside low/medium/high.
SampleFeatures ==
    { [name |-> "User Authentication", category |-> "Security",
       business_value |-> "high", implementation_effort |-> "low",
       risk_level |-> "high"],
      [name |-> "Data Export", category |-> "Data Management",
       business_value |-> "low", implementation_effort |-> "high",
       risk_level |-> "low"],
      [name |-> "Audit Logging", category |-> "Security",
       business_value |-> "medium", implementation_effort |-> "medium",
       risk_level |-> "medium"],
      [name |-> "Bulk Operations", category |-> "Performance",
       business_value |-> "critical", implementation_effort |-> "unknown",
       risk_level |-> "low"] }

-----------------------------------------------------------------------------
(* OracleHCMAnalyzer: aggregation (src/src/analysis_engine.py) *)

\* A label outside the table scores 0.
label_score_known_only(label) ==
    CASE label = "low" -> 1
      [] label = "medium" -> 2
      [] label = "high" -> 3
      [] OTHER -> 0

\* {"low": 1, "medium": 2, "high": 3}.get(label, 1)
label_score(label) ==
    CASE label = "low" -> 1
      [] label = "medium" -> 2
      [] label = "high" -> 3
      [] OTHER -> 1

_calculate_workflow_integration_score(ps) ==
    IF ps = <<>> THEN 0
    ELSE LET pages_with_workflows == Count(ps, LAMBDA p : p.workflows # <<>>)
         IN  round2(100 * pages_with_workflows, Len(ps))

\* Mutant: the normaliser forgets the factor 3 of the highest label score.
_calculate_business_value_score_per_feature(fs) ==
    IF fs = <<>> THEN 0
    ELSE LET total_score == SumSeq(Map(fs, LAMBDA f : label_score(f.business_value)))
         IN  round2(100 * total_score, Len(fs))

_calculate_business_value_score(fs) ==
    IF fs = <<>> THEN 0
    ELSE LET total_score == SumSeq(Map(fs, LAMBDA f : label_score(f.business_value)))
         IN  round2(100 * total_score, Len(fs) * 3)

_calculate_implementation_effort_score(fs) ==
    IF fs = <<>> THEN 0
    ELSE LET total_score ==
                 SumSeq(Map(fs, LAMBDA f : label_score(f.implementation_effort)))
         IN  round2(100 * total_score, Len(fs) * 3)

\* Mutant: max_possible_score forgets the factor 3 of the highest impact.
_calculate_roi_score_priority_only(bps) ==
    IF bps = <<>> THEN 0
    ELSE LET total_score ==
                 SumSeq(Map(bps, LAMBDA bp : bp.priority * label_score(bp.business_impact)))
             max_possible_score == Len(bps) * 5
         IN  round2(100 * total_score, max_possible_score)

_calculate_roi_score(bps) ==
    IF bps = <<>> THEN 0
    ELSE LET total_score ==
                 SumSeq(Map(bps, LAMBDA bp : bp.priority * label_score(bp.business_impact)))
             max_possible_score == Len(bps) * 5 * 3
         IN  round2(100 * total_score, max_possible_score)

\* Mutant: the mean is cut to 2 decimals instead of rounded.
average_complexity_truncated(ps) ==
    IF Len(ps) > 0
    THEN SumSeq(Map(ps, LAMBDA p : p.complexity_score)) \div Len(ps)
    ELSE 0

\* sum(p.complexity_score for p in pages) / total_pages, rounded on return;
\* 0 for no pages.
average_complexity(ps) ==
    IF Len(ps) > 0
    THEN round2(SumSeq(Map(ps, LAMBDA p : p.complexity_score)), Len(ps))
    ELSE round2(0, 1)

average_load_time(ps) ==
    IF Len(ps) > 0
    THEN round2(SumSeq(Map(ps, LAMBDA p : p.load_time)), Len(ps))
    ELSE round2(0, 1)

\* Mutant: a page on the threshold counts as highly complex.
high_complexity_pages_inclusive(ps) ==
    IF Len(ps) > 0 THEN Count(ps, LAMBDA p : p.complexity_score >= 70) ELSE 0

high_complexity_pages(ps) ==
    IF Len(ps) > 0 THEN Count(ps, LAMBDA p : p.complexity_score > 70) ELSE 0

performance_issues(ps) ==
    IF Len(ps) > 0 THEN Count(ps, LAMBDA p : p.load_time > 300) ELSE 0

\* accessibility_issues counted against the WCAG threshold of the reports.
accessibility_issues_below_wcag(ps) ==
    IF Len(ps) > 0 THEN Count(ps, LAMBDA p : p.accessibility_score < 80) ELSE 0

accessibility_issues(ps) ==
    IF Len(ps) > 0 THEN Count(ps, LAMBDA p : p.accessibility_score < 70) ELSE 0

mobile_friendly_pages(ps) ==
    IF Len(ps) > 0 THEN Count(ps, LAMBDA p : p.mobile_friendly) ELSE 0

seo_optimized_pages(ps) ==
    IF Len(ps) > 0 THEN Count(ps, LAMBDA p : p.seo_score > 80) ELSE 0

\* technical_debt_total added to a running total the previous call left behind.
technical_debt_total_running(ps) ==
    (IF Len(ps) > 0
     THEN round2(SumSeq(Map(ps, LAMBDA p : p.technical_debt)), 1)
     ELSE round2(0, 1))
    + (IF stats.status = "returned" THEN stats.value.technical_debt_total ELSE 0)

technical_debt_total(ps) ==
    IF Len(ps) > 0
    THEN round2(SumSeq(Map(ps, LAMBDA p : p.technical_debt)), 1)
    ELSE round2(0, 1)

\* Mutant: the division by zero is avoided by dividing by at least one page.
feature_density_over_one(ps, fs) ==
    IF Len(fs) > 0
    THEN round2(100 * Len(fs), IF Len(ps) > 0 THEN Len(ps) ELSE 1)
    ELSE round2(0, 1)

feature_density(ps, fs) ==
    IF Len(fs) > 0
    THEN (IF Len(ps) > 0 THEN round2(100 * Len(fs), Len(ps)) ELSE round2(0, 1))
    ELSE round2(0, 1)

_calculate_statistics(ps, fs, bps) ==
    [total_pages |-> Len(ps),
     total_features |-> Len(fs),
     total_best_practices |-> Len(bps),
     average_complexity |-> average_complexity(ps),
     average_load_time |-> average_load_time(ps),
     high_complexity_pages |-> high_complexity_pages(ps),
     performance_issues |-> performance_issues(ps),
     security_concerns |-> Count(fs, LAMBDA f : f.risk_level = "high"),
     accessibility_issues |-> accessibility_issues(ps),
     mobile_friendly_pages |-> mobile_friendly_pages(ps),
     seo_optimized_pages |-> seo_optimized_pages(ps),
     workflow_integration_score |-> _calculate_workflow_integration_score(ps),
     feature_density |-> feature_density(ps, fs),
     technical_debt_total |-> technical_debt_total(ps),
     business_value_score |->
         IF Len(fs) > 0 THEN round2(_calculate_business_value_score(fs), 1)
         ELSE round2(0, 1),
     implementation_effort_score |->
         IF Len(fs) > 0 THEN round2(_calculate_implementation_effort_score(fs), 1)
         ELSE round2(0, 1),
     roi_score |-> _calculate_roi_score(bps)]

-----------------------------------------------------------------------------
(* ReportGenerator: risk assessment (src/src/utils/report_generator.py) *)

\* Mutant: technical debt weighs 0.3 like load time and complexity.
page_risk_penalties_heavy_debt(page) ==
    (IF page.load_time > 300 THEN <<3>> ELSE <<>>)
    \o (IF page.complexity_score > 70 THEN <<3>> ELSE <<>>)
    \o (IF page.technical_debt > 50 THEN <<3>> ELSE <<>>)
    \o (IF ~page.mobile_friendly THEN <<1>> ELSE <<>>)
    \o (IF page.accessibility_score < 80 THEN <<1>> ELSE <<>>)

\* The penalties, in tenths, appended for the conditions that hold.
page_risk_penalties(page) ==
    (IF page.load_time > 300 THEN <<3>> ELSE <<>>)
    \o (IF page.complexity_score > 70 THEN <<3>> ELSE <<>>)
    \o (IF page.technical_debt > 50 THEN <<2>> ELSE <<>>)
    \o (IF ~page.mobile_friendly THEN <<1>> ELSE <<>>)
    \o (IF page.accessibility_score < 80 THEN <<1>> ELSE <<>>)

\* sum(risk_factors) if risk_factors else 0.0, in tenths.  The float sum of
\* any subset of 0.3, 0.3, 0.2, 0.1, 0.1 compares with 0.4, 0.7 and 1.0 as the
\* decimal sum does.
_calculate_page_risk(page) ==
    LET risk_factors == page_risk_penalties(page)
    IN  IF risk_factors # <<>> THEN SumSeq(risk_factors) ELSE 0

_identify_risk_factors(page) ==
    (IF page.load_time > 300 THEN <<"High load time">> ELSE <<>>)
    \o (IF page.complexity_score > 70 THEN <<"High complexity">> ELSE <<>>)
    \o (IF page.technical_debt > 50 THEN <<"Technical debt">> ELSE <<>>)
    \o (IF ~page.mobile_friendly THEN <<"Mobile unfriendly">> ELSE <<>>)
    \o (IF page.accessibility_score < 80 THEN <<"Accessibility issues">> ELSE <<>>)

page_risk_item(page) ==
    [type |-> "page", name |-> page.title, module |-> page.module,
     risk_score |-> _calculate_page_risk(page),
     risk_factors |-> _identify_risk_factors(page)]

feature_risk_item(feature) ==
    [type |-> "feature", name |-> feature.name, category |-> feature.category,
     risk_score |-> 8,
     risk_factors |-> <<"High risk level", "Complex implementation">>]

\* Mutant: a score on a threshold falls into the lower bucket.
page_risk_bucket_exclusive(risk_score) ==
    IF risk_score > 7 THEN "high_risk_items"
    ELSE IF risk_score > 4 THEN "medium_risk_items"
    ELSE "low_risk_items"

\* The bucket the loop appends a page's item to.
page_risk_bucket(risk_score) ==
    IF risk_score >= 7 THEN "high_risk_items"
    ELSE IF risk_score >= 4 THEN "medium_risk_items"
    ELSE "low_risk_items"

\* risk_data after the loop over session.pages has handled ps.
RECURSIVE assess_page_risks(_, _)
assess_page_risks(risk_data, ps) ==
    IF ps = <<>> THEN risk_data
    ELSE LET risk_item == page_risk_item(Head(ps))
             bucket == page_risk_bucket(risk_item.risk_score)
         IN  assess_page_risks(
                 [risk_data EXCEPT ![bucket] = Append(@, risk_item)], Tail(ps))

\* risk_data after the loop over session.features has handled fs: the items
\* of the features of high risk are appended in the order of fs.
assess_feature_risks(risk_data, fs) ==
    LET high == SelectSeq(fs, LAMBDA feature : feature.risk_level = "high")
    IN  [risk_data EXCEPT
            !.high_risk_items = @ \o [i \in 1..Len(high) |-> feature_risk_item(high[i])]]

\* The sum divided by the number of pages alone.
overall_risk_score_per_page(risk_data, ps, fs) ==
    IF Len(ps) > 0
    THEN Frac(Len(risk_data.high_risk_items) * 8
                + Len(risk_data.medium_risk_items) * 4,
              10 * Len(ps))
    ELSE Zero

\* (high_risk_count * 0.8 + medium_risk_count * 0.4) / total_items
overall_risk_score(risk_data, ps, fs) ==
    LET total_items == Len(ps) + Len(fs)
    IN  IF total_items > 0
        THEN Frac(Len(risk_data.high_risk_items) * 8
                    + Len(risk_data.medium_risk_items) * 4,
                  10 * total_items)
        ELSE Zero

_generate_risk_assessment(ps, fs) ==
    LET empty == [high_risk_items |-> <<>>, medium_risk_items |-> <<>>,
                  low_risk_items |-> <<>>,
                  risk_categories |->
                      [security |-> <<>>, performance |-> <<>>, compliance |-> <<>>,
                       business_continuity |-> <<>>, technical_debt |-> <<>>],
                  overall_risk_score |-> Zero]
        risk_data == assess_feature_risks(assess_page_risks(empty, ps), fs)
    IN  [risk_data EXCEPT !.overall_risk_score = overall_risk_score(risk_data, ps, fs)]

-----------------------------------------------------------------------------
(* ReportGenerator: compliance summary *)

\* len([...]) / len(session.pages) if session.pages else 0
compliance_rate(compliant, ps) ==
    IF ps # <<>> THEN Frac(compliant, Len(ps)) ELSE Zero

wcag_aa_compliant(ps) == Count(ps, LAMBDA p : p.accessibility_score >= 80)

mobile_friendly(ps) == Count(ps, LAMBDA p : p.mobile_friendly)

\* Mutant: a page that loads in exactly 3.0 s is not compliant.
under_3s_exclusive(ps) == Count(ps, LAMBDA p : p.load_time < 300)

under_3s(ps) == Count(ps, LAMBDA p : p.load_time <= 300)

_generate_compliance_summary(ps) ==
    [accessibility_compliance |->
         [wcag_aa_compliant |-> wcag_aa_compliant(ps),
          wcag_aa_non_compliant |-> Count(ps, LAMBDA p : p.accessibility_score < 80),
          compliance_rate |-> compliance_rate(wcag_aa_compliant(ps), ps)],
     mobile_compliance |->
         [mobile_friendly |-> mobile_friendly(ps),
          mobile_unfriendly |-> Count(ps, LAMBDA p : ~p.mobile_friendly),
          compliance_rate |-> compliance_rate(mobile_friendly(ps), ps)],
     performance_compliance |->
         [under_3s |-> under_3s(ps),
          over_3s |-> Count(ps, LAMBDA p : p.load_time > 300),
          compliance_rate |-> compliance_rate(under_3s(ps), ps)]]

-----------------------------------------------------------------------------
(* ReportGenerator: ROI analysis *)

Digits == {"0", "1", "2", "3", "4", "5", "6", "7", "8", "9"}

\* The number a non-empty string of digits denotes.
RECURSIVE digits_value(_)
digits_value(s) ==
    LET digit(c) ==
            CASE c = "0" -> 0 [] c = "1" -> 1 [] c = "2" -> 2 [] c = "3" -> 3
              [] c = "4" -> 4 [] c = "5" -> 5 [] c = "6" -> 6 [] c = "7" -> 7
              [] c = "8" -> 8 [] c = "9" -> 9
    IN  IF s = <<>> THEN 0
        ELSE 10 * digits_value(SubSeq(s, 1, Len(s) - 1)) + digit(s[Len(s)])

\* str.replace(old, ''), for a one-character old.
replace(s, old) == SelectSeq(s, LAMBDA c : c # old)

\* str.strip() of blanks, as float() does before it parses.
RECURSIVE strip(_)
strip(s) ==
    IF s = <<>> THEN s
    ELSE IF Head(s) = " " THEN strip(Tail(s))
    ELSE IF s[Len(s)] = " " THEN strip(SubSeq(s, 1, Len(s) - 1))
    ELSE s

\* float(s) for strings made of digits, blanks, signs and characters no float
\* literal holds (the cost strings of the model contain no '.', 'e', '_', nor
\* the letters of 'inf' and 'nan'): blanks around the literal are dropped, one
\* sign may lead, the rest must be digits and at least one; anything else is a
\* ValueError.
float(s) ==
    LET t == strip(s)
        signed == t # <<>> /\ Head(t) \in {"-", "+"}
        body == IF signed THEN Tail(t) ELSE t
    IN  IF body # <<>> /\ \A i \in 1..Len(body) : body[i] \in Digits
        THEN [ok |-> TRUE,
              value |-> IF signed /\ Head(t) = "-" THEN 0 - digits_value(body)
                        ELSE digits_value(body)]
        ELSE [ok |-> FALSE]

\* float(opportunity["estimated_cost"].replace('$', '').replace(',', ''))
parse_estimated_cost(estimated_cost) ==
    float(replace(replace(estimated_cost, "$"), ","))

\* An impact label outside the table scores 0.
ReportGenerator_calculate_roi_score_no_default(best_practice) ==
    IF best_practice.business_impact \in {"low", "medium", "high"}
    THEN best_practice.priority * label_score(best_practice.business_impact)
    ELSE 0

\* priority / 5.0 * impact_scores.get(business_impact, 1.0), counted in fifths:
\* 3.0 is 15 and 1.5 is 7.5.
ReportGenerator_calculate_roi_score(best_practice) ==
    best_practice.priority * label_score(best_practice.business_impact)

_estimate_benefit_value(business_impact) ==
    CASE business_impact = "low" -> 10000
      [] business_impact = "medium" -> 50000
      [] business_impact = "high" -> 150000
      [] OTHER -> 25000

roi_item(bp) ==
    [title |-> bp.title, category |-> bp.category, priority |-> bp.priority,
     estimated_cost |-> bp.cost_estimate, business_impact |-> bp.business_impact,
     timeline |-> bp.timeline,
     roi_score |-> ReportGenerator_calculate_roi_score(bp)]

\* The list the loop appends a best practice's item to.
roi_bucket_above_three(roi_score) ==
    IF roi_score > 15 THEN "high_roi_opportunities"
    ELSE IF 2 * roi_score >= 15 THEN "medium_roi_opportunities"
    ELSE "low_roi_opportunities"

\* The list the loop appends a best practice's item to.
roi_bucket(roi_score) ==
    IF roi_score >= 15 THEN "high_roi_opportunities"
    ELSE IF 2 * roi_score >= 15 THEN "medium_roi_opportunities"
    ELSE "low_roi_opportunities"

\* roi_data after the loop over session.best_practices has handled bps.
RECURSIVE roi_opportunities(_, _)
roi_opportunities(roi_data, bps) ==
    IF bps = <<>> THEN roi_data
    ELSE LET item == roi_item(Head(bps))
         IN  roi_opportunities(
                 [roi_data EXCEPT ![roi_bucket(item.roi_score)] = Append(@, item)],
                 Tail(bps))

\* The loop that adds up cost and benefit; float() raising ends the analysis.
RECURSIVE roi_totals(_, _)
roi_totals(roi_data, opportunities) ==
    IF opportunities = <<>> THEN Returned(roi_data)
    ELSE LET opportunity == Head(opportunities)
             cost == parse_estimated_cost(opportunity.estimated_cost)
         IN  IF ~cost.ok THEN Raised("ValueError")
             ELSE roi_totals(
                      [roi_data EXCEPT
                          !.total_estimated_cost = @ + cost.value,
                          !.total_estimated_benefit =
                              @ + _estimate_benefit_value(opportunity.business_impact)],
                      Tail(opportunities))

overall_roi(roi_data) ==
    IF roi_data.total_estimated_cost > 0
    THEN Frac(roi_data.total_estimated_benefit, roi_data.total_estimated_cost)
    ELSE Zero

\* roi_data as the handler creates it.
empty_roi_data ==
    [high_roi_opportunities |-> <<>>, medium_roi_opportunities |-> <<>>,
     low_roi_opportunities |-> <<>>,
     total_estimated_cost |-> 0, total_estimated_benefit |-> 0,
     overall_roi |-> Zero]

_generate_roi_analysis(bps) ==
    LET sorted == roi_opportunities(empty_roi_data, bps)
        totals == roi_totals(sorted,
                             sorted.high_roi_opportunities
                               \o sorted.medium_roi_opportunities
                               \o sorted.low_roi_opportunities)
    IN  IF totals.status = "raised" THEN totals
        ELSE Returned([totals.value EXCEPT !.overall_roi = overall_roi(totals.value)])

-----------------------------------------------------------------------------
(* Roadmap builders *)

\* OracleHCMAnalyzer._generate_implementation_roadmap: the roadmap as created.
empty_roadmap ==
    [tier \in {"Immediate (0-30 days)", "Short-term (1-3 months)",
               "Medium-term (3-6 months)", "Long-term (6+ months)"} |-> <<>>]

\* The body of its loop with the if chain unlinked: what follows the test on
\* priority 5 is tried for every best practice.
roadmap_append_unlinked(roadmap, bp) ==
    LET first == IF bp.priority = 5
                 THEN [roadmap EXCEPT !["Immediate (0-30 days)"] = Append(@, bp.title)]
                 ELSE roadmap
    IN  IF bp.priority = 4
        THEN [first EXCEPT !["Short-term (1-3 months)"] = Append(@, bp.title)]
        ELSE IF bp.priority = 3
        THEN [first EXCEPT !["Medium-term (3-6 months)"] = Append(@, bp.title)]
        ELSE [first EXCEPT !["Long-term (6+ months)"] = Append(@, bp.title)]

\* The body of its loop: the title goes to the end of one tier.
roadmap_append(roadmap, bp) ==
    IF bp.priority = 5
    THEN [roadmap EXCEPT !["Immediate (0-30 days)"] = Append(@, bp.title)]
    ELSE IF bp.priority = 4
    THEN [roadmap EXCEPT !["Short-term (1-3 months)"] = Append(@, bp.title)]
    ELSE IF bp.priority = 3
    THEN [roadmap EXCEPT !["Medium-term (3-6 months)"] = Append(@, bp.title)]
    ELSE [roadmap EXCEPT !["Long-term (6+ months)"] = Append(@, bp.title)]

RECURSIVE roadmap_loop(_, _)
roadmap_loop(roadmap, bps) ==
    IF bps = <<>> THEN roadmap
    ELSE roadmap_loop(roadmap_append(roadmap, Head(bps)), Tail(bps))

_generate_implementation_roadmap(bps) == roadmap_loop(empty_roadmap, bps)

\* ReportGenerator._generate_implementation_roadmap: the roadmap as created.
ReportGenerator_empty_roadmap ==
    [immediate_actions |-> <<>>, short_term |-> <<>>, medium_term |-> <<>>,
     long_term |-> <<>>, strategic |-> <<>>]

\* The dict its loop appends.
roadmap_entry(bp) ==
    [title |-> bp.title, category |-> bp.category,
     effort |-> bp.estimated_effort, timeline |-> bp.timeline]

\* The body of its loop with the entry put in front of the tier.
ReportGenerator_roadmap_insert_first(roadmap, bp) ==
    IF bp.priority = 5
    THEN [roadmap EXCEPT !.immediate_actions = <<roadmap_entry(bp)>> \o @]
    ELSE IF bp.priority = 4
    THEN [roadmap EXCEPT !.short_term = <<roadmap_entry(bp)>> \o @]
    ELSE IF bp.priority = 3
    THEN [roadmap EXCEPT !.medium_term = <<roadmap_entry(bp)>> \o @]
    ELSE IF bp.priority = 2
    THEN [roadmap EXCEPT !.long_term = <<roadmap_entry(bp)>> \o @]
    ELSE [roadmap EXCEPT !.strategic = <<roadmap_entry(bp)>> \o @]

\* The body of its loop: the entry goes to the end of one tier.
ReportGenerator_roadmap_append(roadmap, bp) ==
    IF bp.priority = 5
    THEN [roadmap EXCEPT !.immediate_actions = Append(@, roadmap_entry(bp))]
    ELSE IF bp.priority = 4
    THEN [roadmap EXCEPT !.short_term = Append(@, roadmap_entry(bp))]
    ELSE IF bp.priority = 3
    THEN [roadmap EXCEPT !.medium_term = Append(@, roadmap_entry(bp))]
    ELSE IF bp.priority = 2
    THEN [roadmap EXCEPT !.long_term = Append(@, roadmap_entry(bp))]
    ELSE [roadmap EXCEPT !.strategic = Append(@, roadmap_entry(bp))]

RECURSIVE ReportGenerator_roadmap_loop(_, _)
ReportGenerator_roadmap_loop(roadmap, bps) ==
    IF bps = <<>> THEN roadmap
    ELSE ReportGenerator_roadmap_loop(
             ReportGenerator_roadmap_append(roadmap, Head(bps)), Tail(bps))

ReportGenerator_generate_implementation_roadmap(bps) ==
    ReportGenerator_roadmap_loop(ReportGenerator_empty_roadmap, bps)

-----------------------------------------------------------------------------

(* OracleHCMAnalyzer: the page generator *)

\* Page names and modules are strings of characters.
GoalManagement == <<"G", "o", "a", "l", " ", "M", "a", "n", "a", "g", "e", "m", "e", "n", "t">>
Onboarding == <<"O", "n", "b", "o", "a", "r", "d", "i", "n", "g">>
Feedback360 == <<"3", "6", "0", " ", "F", "e", "e", "d", "b", "a", "c", "k">>
CoreHR == <<"C", "o", "r", "e", " ", "H", "R">>
Performance == <<"P", "e", "r", "f", "o", "r", "m", "a", "n", "c", "e">>

Uppercase ==
    <<"A", "B", "C", "D", "E", "F", "G", "H", "I", "J", "K", "L", "M", "N",
      "O", "P", "Q", "R", "S", "T", "U", "V", "W", "X", "Y", "Z">>

Lowercase ==
    <<"a", "b", "c", "d", "e", "f", "g", "h", "i", "j", "k", "l", "m", "n",
      "o", "p", "q", "r", "s", "t", "u", "v", "w", "x", "y", "z">>

\* str.lower()
lower(s) ==
    [i \in 1..Len(s) |->
        IF \E k \in 1..26 : Uppercase[k] = s[i]
        THEN Lowercase[CHOOSE k \in 1..26 : Uppercase[k] = s[i]]
        ELSE s[i]]

\* str.replace(' ', '-')
replace_blanks(s) == [i \in 1..Len(s) |-> IF s[i] = " " THEN "-" ELSE s[i]]

\* The characters \w matches in the names of the model.
WordChars == {Lowercase[k] : k \in 1..26} \cup {Uppercase[k] : k \in 1..26}
               \cup Digits \cup {"_"}

\* re.findall(r'\b\w+\b', text): the maximal runs of word characters; word is
\* the run being read.
RECURSIVE findall_words(_, _)
findall_words(text, word) ==
    LET done == IF word = <<>> THEN <<>> ELSE <<word>>
    IN  IF text = <<>> THEN done
        ELSE IF Head(text) \in WordChars
        THEN findall_words(Tail(text), Append(word, Head(text)))
        ELSE done \o findall_words(Tail(text), <<>>)

stop_words ==
    {<<"t", "h", "e">>, <<"a">>, <<"a", "n">>, <<"a", "n", "d">>, <<"o",
     "r">>, <<"b", "u", "t">>, <<"i", "n">>, <<"o", "n">>, <<"a", "t">>,
     <<"t", "o">>, <<"f", "o", "r">>, <<"o", "f">>, <<"w", "i", "t",
     "h">>, <<"b", "y">>}

\* [word for word in words if word not in stop_words and len(word) > 3]
keyword_candidates(text) ==
    SelectSeq(findall_words(lower(text), <<>>),
              LAMBDA word : word \notin stop_words /\ Len(word) > 3)

\* The strings a call for the page name puts in a set.
hashed_strings(text) ==
    {keyword_candidates(text)[i] : i \in DOMAIN keyword_candidates(text)}

\* The orders in which a process may iterate over a set of these strings: the
\* order follows the hashes of the strings, which are salted anew whenever a
\* process starts (PYTHONHASHSEED), and stays the same while it runs.
hash_orders(strings) ==
    {order \in [1..Cardinality(strings) -> strings] :
        \A s \in strings : \E i \in DOMAIN order : order[i] = s}

\* list(set(keywords))[:5]
_extract_keywords(text) ==
    LET unique == hashed_strings(text)
        listed == SelectSeq(hash_order, LAMBDA s : s \in unique)
    IN  SubSeq(listed, 1, IF Len(listed) < 5 THEN Len(listed) ELSE 5)

\* [templates[i % len(templates)] for i in range(max(1, len(page_name) % n))]
templates_for_page(templates, page_name, n) ==
    LET count == IF Len(page_name) % n < 1 THEN 1 ELSE Len(page_name) % n
    IN  [i \in 1..count |-> templates[((i - 1) % Len(templates)) + 1]]

_generate_forms_for_page(page_name) ==
    templates_for_page(<<"Data Entry Form", "Search Form", "Filter Form",
                         "Configuration Form", "Approval Form", "Review Form",
                         "Settings Form", "Import Form">>, page_name, 4)

_generate_reports_for_page(page_name) ==
    templates_for_page(<<"Summary Report", "Detailed Report", "Analytics Report",
                         "Trend Report", "Comparison Report", "Performance Report",
                         "Status Report", "Audit Report">>, page_name, 3)

_generate_workflows_for_page(page_name) ==
    templates_for_page(<<"Approval Workflow", "Review Workflow",
                         "Notification Workflow", "Data Processing Workflow",
                         "Integration Workflow", "Maintenance Workflow">>,
                       page_name, 2)

\* word in page_name.lower()
contains(s, word) ==
    \E i \in 1..(Len(s) - Len(word) + 1) : SubSeq(s, i, i + Len(word) - 1) = word

_determine_usage_frequency(page_name) ==
    IF \E word \in {<<"d", "a", "s", "h", "b", "o", "a", "r", "d">>,
                    <<"o", "v", "e", "r", "v", "i", "e", "w">>, <<"h", "o", "m", "e">>} :
         contains(lower(page_name), word)
    THEN "daily"
    ELSE IF \E word \in {<<"r", "e", "p", "o", "r", "t">>,
                         <<"a", "n", "a", "l", "y", "t", "i", "c", "s">>} :
              contains(lower(page_name), word)
    THEN "weekly"
    ELSE "monthly"

_determine_business_criticality(page_name) ==
    IF \E word \in {<<"e", "m", "p", "l", "o", "y", "e", "e">>,
                    <<"p", "a", "y", "r", "o", "l", "l">>,
                    <<"s", "e", "c", "u", "r", "i", "t", "y">>} :
         contains(lower(page_name), word)
    THEN "high"
    ELSE IF \E word \in {<<"r", "e", "p", "o", "r", "t">>,
                         <<"a", "n", "a", "l", "y", "t", "i", "c", "s">>} :
              contains(lower(page_name), word)
    THEN "medium"
    ELSE "low"

_generate_performance_notes(load_time, complexity) ==
    LET slow == IF load_time > 300
                THEN <<"Page load time exceeds recommended threshold of 3 seconds">>
                ELSE <<>>
        complex == IF complexity > 80
                   THEN <<"High complexity may impact user experience and maintenance">>
                   ELSE <<>>
    IN  IF slow \o complex = <<>>
        THEN <<"Performance metrics are within acceptable ranges">>
        ELSE slow \o complex

_generate_page_recommendations(complexity, load_time) ==
    (IF complexity > 80
     THEN <<"Consider simplifying page layout and reducing feature density">>
     ELSE <<>>)
    \o (IF load_time > 300
        THEN <<"Optimize page loading performance through code splitting and lazy loading">>
        ELSE <<>>)
    \o (IF complexity < 30
        THEN <<"Page may benefit from additional functionality to improve user productivity">>
        ELSE <<>>)

\* datetime.now().strftime("%Y-%m-%d") for the date the clock shows.
strftime(date) == <<date.year, "-", date.month, "-", date.day>>

\* f"/hcm/{module.lower().replace(' ', '-')}/{page_name.lower().replace(' ', '-')}"
page_url(page_name, module) ==
    <<"/", "h", "c", "m", "/">> \o replace_blanks(lower(module))
        \o <<"/">> \o replace_blanks(lower(page_name))

\* round(0.1 + (page_id * 0.05) % 0.9, 2)
page_complexity_score(page_id) == round2(10 + ((5 * page_id) % 90), 1)

\* The remainder is taken of 3.0.
page_load_time_below_three_and_a_half(page_id) ==
    round2(50 + ((10 * page_id) % 300), 1)

\* round(0.5 + (page_id * 0.1) % 2.5, 2)
page_load_time(page_id) == round2(50 + ((10 * page_id) % 250), 1)

\* The remainder is taken as it is.
page_feature_count_unclamped(page_id) == page_id % 8

\* max(1, page_id % 8)
page_feature_count(page_id) == IF page_id % 8 < 1 THEN 1 ELSE page_id % 8

\* round(0.6 + (page_id * 0.03) % 0.4, 2)
page_accessibility_score(page_id) == round2(60 + ((3 * page_id) % 40), 1)

\* round(0.5 + (page_id * 0.04) % 0.5, 2)
page_seo_score(page_id) == round2(50 + ((4 * page_id) % 50), 1)

\* Scores are counted in hundredths.  For a page_id below 40 the float
\* expressions 0.1 + (page_id * 0.05) % 0.9, 0.5 + (page_id * 0.1) % 2.5,
\* 0.6 + (page_id * 0.03) % 0.4 and 0.5 + (page_id * 0.04) % 0.5 round to the
\* hundredths of the decimal results taken here.  The description and the
\* parent and child page names, plain formats of the two names, are left out.
_create_page_analysis(page_name, module, page_id) ==
    LET complexity_score == page_complexity_score(page_id)
        load_time == page_load_time(page_id)
        feature_count == page_feature_count(page_id)
    IN  [title |-> page_name,
         url |-> page_url(page_name, module),
         module |-> module,
         complexity_score |-> complexity_score,
         load_time |-> load_time,
         feature_count |-> feature_count,
         forms |-> _generate_forms_for_page(page_name),
         reports |-> _generate_reports_for_page(page_name),
         workflows |-> _generate_workflows_for_page(page_name),
         keywords |-> _extract_keywords(page_name),
         navigation_path |-> <<<<"H", "o", "m", "e">>, module, page_name>>,
         performance_notes |-> _generate_performance_notes(load_time, complexity_score),
         recommendations |-> _generate_page_recommendations(complexity_score, load_time),
         last_updated |-> strftime(today),
         usage_frequency |-> _determine_usage_frequency(page_name),
         business_criticality |-> _determine_business_criticality(page_name),
         technical_debt |-> round2(complexity_score * 8, 10),
         accessibility_score |-> page_accessibility_score(page_id),
         mobile_friendly |-> page_id % 3 # 0,
         seo_score |-> page_seo_score(page_id)]

-----------------------------------------------------------------------------

(* OracleHCMAnalyzer: best-practice rules *)

\* The rule applied to each page in turn.
_generate_performance_best_practices_per_page(ps) ==
    [i \in 1..Len(SelectSeq(ps, LAMBDA p : p.load_time > 300)) |->
        OptimizePageLoadTimes]

\* if any(p.load_time > 3.0 for p in pages)
_generate_performance_best_practices(ps) ==
    IF \E i \in DOMAIN ps : ps[i].load_time > 300
    THEN <<OptimizePageLoadTimes>>
    ELSE <<>>

\* The rule applied only when there are features.
_generate_security_best_practices_if_features(fs) ==
    IF fs # <<>> THEN <<ImplementRBAC>> ELSE <<>>

\* The rule does not look at the features.
_generate_security_best_practices(fs) == <<ImplementRBAC>>

\* if not all(p.mobile_friendly for p in pages)
_generate_usability_best_practices(ps) ==
    IF ~(\A i \in DOMAIN ps : ps[i].mobile_friendly)
    THEN <<ImproveMobileResponsiveness>>
    ELSE <<>>

\* The rule does not look at the features.
_generate_integration_best_practices(fs) == <<StandardizeAPIDesign>>

\* if any(p.accessibility_score < 0.8 for p in pages)
_generate_accessibility_best_practices(ps) ==
    IF \E i \in DOMAIN ps : ps[i].accessibility_score < 80
    THEN <<AchieveWCAGCompliance>>
    ELSE <<>>

_generate_best_practices(ps, fs) ==
    _generate_performance_best_practices(ps)
      \o _generate_security_best_practices(fs)
      \o _generate_usability_best_practices(ps)
      \o _generate_integration_best_practices(fs)
      \o _generate_accessibility_best_practices(ps)

-----------------------------------------------------------------------------

-----------------------------------------------------------------------------
(* OracleHCMAnalyzer: the pages and features of a session *)

\* hcm_modules.items(): the modules in the order the dict literal lists them,
\* each with its page names.
hcm_modules ==
    <<[module |->
           CoreHR,
       module_pages |-> <<
           <<"E", "m", "p", "l", "o", "y", "e", "e", " ", "S", "e",
             "l", "f", " ", "S", "e", "r", "v", "i", "c", "e">>,
           <<"M", "a", "n", "a", "g", "e", "r", " ", "S", "e", "l",
             "f", " ", "S", "e", "r", "v", "i", "c", "e">>,
           <<"O", "r", "g", "a", "n", "i", "z", "a", "t", "i", "o",
             "n", " ", "M", "a", "n", "a", "g", "e", "m", "e", "n",
             "t">>,
           <<"P", "o", "s", "i", "t", "i", "o", "n", " ", "M", "a",
             "n", "a", "g", "e", "m", "e", "n", "t">>,
           <<"J", "o", "b", " ", "M", "a", "n", "a", "g", "e", "m",
             "e", "n", "t">>,
           <<"G", "r", "a", "d", "e", " ", "M", "a", "n", "a", "g",
             "e", "m", "e", "n", "t">> >>],
      [module |->
           <<"R", "e", "c", "r", "u", "i", "t", "m", "e", "n", "t">>,
       module_pages |-> <<
           <<"J", "o", "b", " ", "R", "e", "q", "u", "i", "s", "i",
             "t", "i", "o", "n", "s">>,
           <<"C", "a", "n", "d", "i", "d", "a", "t", "e", " ", "M",
             "a", "n", "a", "g", "e", "m", "e", "n", "t">>,
           <<"I", "n", "t", "e", "r", "v", "i", "e", "w", " ", "M",
             "a", "n", "a", "g", "e", "m", "e", "n", "t">>,
           <<"O", "f", "f", "e", "r", " ", "M", "a", "n", "a", "g",
             "e", "m", "e", "n", "t">>,
           Onboarding,
           <<"B", "a", "c", "k", "g", "r", "o", "u", "n", "d", " ",
             "C", "h", "e", "c", "k", "s">> >>],
      [module |->
           Performance,
       module_pages |-> <<
           GoalManagement,
           <<"P", "e", "r", "f", "o", "r", "m", "a", "n", "c", "e", " ", "R", "e", "v", "i", "e", "w", "s">>,
           Feedback360,
           <<"C", "a", "l", "i", "b", "r", "a", "t", "i", "o", "n">>,
           <<"S", "u", "c", "c", "e", "s", "s", "i", "o", "n", " ",
             "P", "l", "a", "n", "n", "i", "n", "g">>,
           <<"C", "a", "r", "e", "e", "r", " ", "D", "e", "v", "e",
             "l", "o", "p", "m", "e", "n", "t">> >>],
      [module |->
           <<"C", "o", "m", "p", "e", "n", "s", "a", "t", "i", "o",
             "n">>,
       module_pages |-> <<
           <<"S", "a", "l", "a", "r", "y", " ", "P", "l", "a", "n",
             "n", "i", "n", "g">>,
           <<"B", "o", "n", "u", "s", " ", "M", "a", "n", "a", "g",
             "e", "m", "e", "n", "t">>,
           <<"S", "t", "o", "c", "k", " ", "O", "p", "t", "i", "o",
             "n", "s">>,
           <<"B", "e", "n", "e", "f", "i", "t", "s", " ", "A", "d",
             "m", "i", "n", "i", "s", "t", "r", "a", "t", "i", "o",
             "n">>,
           <<"P", "a", "y", "r", "o", "l", "l", " ", "I", "n", "t",
             "e", "g", "r", "a", "t", "i", "o", "n">>,
           <<"T", "o", "t", "a", "l", " ", "R", "e", "w", "a", "r",
             "d", "s">> >>],
      [module |->
           <<"L", "e", "a", "r", "n", "i", "n", "g">>,
       module_pages |-> <<
           <<"C", "o", "u", "r", "s", "e", " ", "C", "a", "t", "a",
             "l", "o", "g">>,
           <<"T", "r", "a", "i", "n", "i", "n", "g", " ", "A", "s",
             "s", "i", "g", "n", "m", "e", "n", "t", "s">>,
           <<"C", "e", "r", "t", "i", "f", "i", "c", "a", "t", "i",
             "o", "n", "s">>,
           <<"S", "k", "i", "l", "l", "s", " ", "M", "a", "n", "a",
             "g", "e", "m", "e", "n", "t">>,
           <<"L", "e", "a", "r", "n", "i", "n", "g", " ", "P", "a",
             "t", "h", "s">>,
           <<"C", "o", "m", "p", "l", "i", "a", "n", "c", "e", " ",
             "T", "r", "a", "i", "n", "i", "n", "g">> >>] >>

\* The (module, page_name) pairs in the order the two nested loops of
\* _analyze_pages visit them.
RECURSIVE module_pages_from(_)
module_pages_from(modules) ==
    IF modules = <<>> THEN <<>>
    ELSE [i \in 1..Len(Head(modules).module_pages) |->
             [module |-> Head(modules).module,
              page_name |-> Head(modules).module_pages[i]]]
         \o module_pages_from(Tail(modules))

common_features ==
    <<<<"U", "s", "e", "r", " ", "A", "u", "t", "h", "e", "n", "t", "i",
        "c", "a", "t", "i", "o", "n">>,
      <<"R", "o", "l", "e", "-", "B", "a", "s", "e", "d", " ", "A", "c",
        "c", "e", "s", "s", " ", "C", "o", "n", "t", "r", "o", "l">>,
      <<"D", "a", "t", "a", " ", "E", "x", "p", "o", "r", "t">>,
      <<"R", "e", "p", "o", "r", "t", " ", "G", "e", "n", "e", "r", "a",
        "t", "i", "o", "n">>,
      <<"W", "o", "r", "k", "f", "l", "o", "w", " ", "E", "n", "g", "i",
        "n", "e">>,
      <<"N", "o", "t", "i", "f", "i", "c", "a", "t", "i", "o", "n", " ",
        "S", "y", "s", "t", "e", "m">>,
      <<"A", "u", "d", "i", "t", " ", "L", "o", "g", "g", "i", "n", "g">>,
      <<"D", "a", "t", "a", " ", "V", "a", "l", "i", "d", "a", "t", "i",
        "o", "n">>,
      <<"B", "u", "l", "k", " ", "O", "p", "e", "r", "a", "t", "i", "o",
        "n", "s">>,
      <<"A", "P", "I", " ", "I", "n", "t", "e", "g", "r", "a", "t", "i",
        "o", "n">>,
      <<"M", "o", "b", "i", "l", "e", " ", "R", "e", "s", "p", "o", "n",
        "s", "i", "v", "e", "n", "e", "s", "s">>,
      <<"S", "e", "a", "r", "c", "h", " ", "F", "u", "n", "c", "t", "i",
        "o", "n", "a", "l", "i", "t", "y">> >>

\* str(n) for n in 0..9.
str(n) ==
    CASE n = 0 -> <<"0">> [] n = 1 -> <<"1">> [] n = 2 -> <<"2">> [] n = 3 -> <<"3">>
      [] n = 4 -> <<"4">> [] n = 5 -> <<"5">> [] n = 6 -> <<"6">> [] n = 7 -> <<"7">>
      [] n = 8 -> <<"8">> [] n = 9 -> <<"9">>

\* f"{page.title} Feature {i+1}"
page_feature_name(page, i) ==
    page.title \o <<" ", "F", "e", "a", "t", "u", "r", "e", " ">> \o str(i + 1)

\* a_list[k] of Python, whose first index is 0.
element_at(a_list, k) == a_list[k + 1]

\* hash(s) of a str: a number fixed by the string and by the salt the process
\* was started with (PYTHONHASHSEED).  The model takes one function of the
\* string per salt, which tells strings apart by their length.
hash(s) == hash_salt + Len(s) * (2 * hash_salt + 1)

_categorize_feature(feature_name) ==
    LET categories == <<"Core Functionality", "User Interface", "Data Management",
                        "Integration", "Security", "Performance">>
    IN  element_at(categories, hash(feature_name) % Len(categories))

_assess_performance_impact(feature_name) ==
    LET impacts == <<"low", "medium", "high">>
    IN  element_at(impacts, hash(feature_name) % Len(impacts))

\* The list has a fifth entry.
_assess_documentation_quality_of_five(feature_id) ==
    LET qualities == <<"poor", "fair", "good", "excellent", "outstanding">>
    IN  element_at(qualities, feature_id % Len(qualities))

_assess_documentation_quality(feature_id) ==
    LET qualities == <<"poor", "fair", "good", "excellent">>
    IN  element_at(qualities, feature_id % Len(qualities))

_assess_testing_coverage(feature_id) ==
    LET coverages == <<"low", "medium", "high">>
    IN  element_at(coverages, feature_id % Len(coverages))

_assess_maintenance_effort(feature_id) ==
    LET efforts == <<"low", "medium", "high">>
    IN  element_at(efforts, feature_id % Len(efforts))

_estimate_roi_timeline(feature_id) ==
    LET timelines == <<"3 months", "6 months", "1 year", "2 years">>
    IN  element_at(timelines, feature_id % Len(timelines))

_assess_risk_level(feature_id) ==
    LET risks == <<"low", "medium", "high">>
    IN  element_at(risks, feature_id % Len(risks))

\* The description, the keywords and the lists whose length follows the length
\* of the name (dependencies, api_endpoints, configuration_options,
\* usage_examples, common_issues, security_considerations, related_features)
\* are left out.
_create_feature_analysis(feature_name, feature_id) ==
    LET complexity_levels == <<"low", "medium", "high">>
        business_values == <<"low", "medium", "high">>
        effort_levels == <<"low", "medium", "high">>
    IN  [name |-> feature_name,
         category |-> _categorize_feature(feature_name),
         complexity |-> element_at(complexity_levels, feature_id % 3),
         business_value |-> element_at(business_values, feature_id % 3),
         implementation_effort |-> element_at(effort_levels, feature_id % 3),
         performance_impact |-> _assess_performance_impact(feature_name),
         documentation_quality |-> _assess_documentation_quality(feature_id),
         testing_coverage |-> _assess_testing_coverage(feature_id),
         maintenance_effort |-> _assess_maintenance_effort(feature_id),
         roi_timeline |-> _estimate_roi_timeline(feature_id),
         risk_level |-> _assess_risk_level(feature_id)]

(* The session and its operations *)

\* No operation has been called.
NothingCalled ==
    /\ generation = NotCalled
    /\ stats = NotCalled
    /\ other_stats = NotCalled
    /\ risk_assessment = NotCalled
    /\ roi_analysis = NotCalled
    /\ roi_buckets = NotCalled
    /\ compliance_summary = NotCalled
    /\ implementation_roadmap = NotCalled
    /\ report_roadmap = NotCalled

\* No run of the application is under way.
WorkflowIdle ==
    /\ pc = "idle"
    /\ hash_salt = 0
    /\ loop_page_id = 1
    /\ loop_feature_id = 1
    /\ feature_loop = [page |-> 1, i |-> 0]
    /\ session = NotCalled
    /\ report_files = <<>>
    /\ reports_dir = {}
    /\ reports = NotCalled

\* The page generator is not in use.
GeneratorIdle ==
    /\ page_args = <<>>
    /\ hash_order = <<>>
    /\ today = 0
    /\ first_page = NotCalled
    /\ second_page = NotCalled

Init ==
    /\ \E np \in 0..MaxRecords :
         \E nf \in 0..(MaxRecords - np) :
           \E nb \in 0..(MaxRecords - np - nf) :
             /\ pages \in [1..np -> SamplePages]
             /\ features \in [1..nf -> SampleFeatures]
             /\ best_practices \in [1..nb -> SampleBestPractices]
    /\ fp_tie_up \in BOOLEAN
    /\ NothingCalled
    /\ WorkflowIdle
    /\ GeneratorIdle

CalculateStatistics ==
    /\ stats' = Returned(_calculate_statistics(pages, features, best_practices))
    /\ UNCHANGED <<inputs, generation, other_stats, risk_assessment, roi_analysis, roi_buckets,
                   compliance_summary, roadmaps, generator, workflow>>

GenerateRiskAssessment ==
    /\ risk_assessment' = Returned(_generate_risk_assessment(pages, features))
    /\ UNCHANGED <<inputs, generation, stats, other_stats, roi_analysis, roi_buckets,
                   compliance_summary, roadmaps, generator, workflow>>

GenerateComplianceSummary ==
    /\ compliance_summary' = Returned(_generate_compliance_summary(pages))
    /\ UNCHANGED <<inputs, generation, stats, other_stats, risk_assessment, roi_analysis,
                   roi_buckets, roadmaps, generator, workflow>>

GenerateRoiAnalysis ==
    /\ roi_analysis' = _generate_roi_analysis(best_practices)
    /\ roi_buckets' = roi_opportunities(empty_roi_data, best_practices)
    /\ UNCHANGED <<inputs, generation, stats, other_stats, risk_assessment,
                   compliance_summary, roadmaps, generator, workflow>>

Next ==
    \/ CalculateStatistics
    \/ GenerateRiskAssessment
    \/ GenerateRoiAnalysis
    \/ GenerateComplianceSummary

Spec == Init /\ [][Next]_vars

-----------------------------------------------------------------------------
(* Properties of the aggregation *)

\* The pages, as positions of the list, that satisfy P.
PagesWhere(P(_)) == {i \in DOMAIN pages : P(pages[i])}

\* h is a hundredth nearest to num / den (num / den counted in hundredths).
NearestHundredth(h, num, den) ==
    LET diff == num - h * den
    IN  2 * (IF diff < 0 THEN 0 - diff ELSE diff) <= den

KnownLabels == {"low", "medium", "high"}

\* The mapping low=1, medium=2, high=3 of a known label.
LabelValue(label) == IF label = "low" THEN 1 ELSE IF label = "medium" THEN 2 ELSE 3

\* C1: _calculate_statistics returns a SystemStats for every combination of
\* empty and non-empty lists; with no pages every page-derived field is 0,
\* with no features business_value_score and implementation_effort_score are
\* 0, with no best practices roi_score is 0, whatever the other two lists hold.
C1_EmptyListsGiveZeroFields ==
    stats.status # "not_called" =>
        /\ stats.status = "returned"
        /\ pages = <<>> =>
              /\ stats.value.average_complexity = 0
              /\ stats.value.average_load_time = 0
              /\ stats.value.high_complexity_pages = 0
              /\ stats.value.performance_issues = 0
              /\ stats.value.accessibility_issues = 0
              /\ stats.value.mobile_friendly_pages = 0
              /\ stats.value.seo_optimized_pages = 0
              /\ stats.value.technical_debt_total = 0
              /\ stats.value.workflow_integration_score = 0
              /\ stats.value.feature_density = 0
        /\ features = <<>> =>
              /\ stats.value.business_value_score = 0
              /\ stats.value.implementation_effort_score = 0
        /\ best_practices = <<>> => stats.value.roi_score = 0

\* Statistics of a session without pages that has features and best practices.
C1_Witness ==
    /\ stats.status = "returned"
    /\ pages = <<>> /\ features # <<>> /\ best_practices # <<>>
    /\ stats.value.feature_density = 0
    /\ stats.value.business_value_score > 0
    /\ stats.value.roi_score > 0

\* C2: average_complexity is the mean of complexity_score over the pages
\* rounded to 2 decimals, average_load_time the mean of load_time rounded to
\* 2 decimals, and both are 0 without pages.
C2_AveragesAreRoundedMeans ==
    stats.status = "returned" =>
        IF pages = <<>>
        THEN stats.value.average_complexity = 0 /\ stats.value.average_load_time = 0
        ELSE /\ NearestHundredth(stats.value.average_complexity,
                    SumSeq([i \in DOMAIN pages |-> pages[i].complexity_score]),
                    Len(pages))
             /\ NearestHundredth(stats.value.average_load_time,
                    SumSeq([i \in DOMAIN pages |-> pages[i].load_time]),
                    Len(pages))

\* Statistics of three pages whose mean complexity is no whole hundredth and
\* rounds upwards.
C2_Witness ==
    /\ stats.status = "returned"
    /\ Len(pages) = 3
    /\ 2 * (SumSeq([i \in DOMAIN pages |-> pages[i].complexity_score]) % 3) > 3
    /\ 3 * stats.value.average_complexity
         > SumSeq([i \in DOMAIN pages |-> pages[i].complexity_score])

\* C3: high_complexity_pages counts the pages with complexity_score > 0.7,
\* performance_issues those with load_time > 3.0, accessibility_issues those
\* with accessibility_score < 0.7; a page on a threshold is not counted and
\* each count lies between 0 and total_pages.
C3_ThresholdCounts ==
    stats.status = "returned" =>
        /\ stats.value.high_complexity_pages
             = Cardinality(PagesWhere(LAMBDA p : p.complexity_score > 70))
        /\ stats.value.performance_issues
             = Cardinality(PagesWhere(LAMBDA p : p.load_time > 300))
        /\ stats.value.accessibility_issues
             = Cardinality(PagesWhere(LAMBDA p : p.accessibility_score < 70))
        /\ (\A i \in DOMAIN pages : pages[i].complexity_score = 70)
              => stats.value.high_complexity_pages = 0
        /\ (\A i \in DOMAIN pages : pages[i].load_time = 300)
              => stats.value.performance_issues = 0
        /\ (\A i \in DOMAIN pages : pages[i].accessibility_score = 70)
              => stats.value.accessibility_issues = 0
        /\ \A n \in {stats.value.high_complexity_pages,
                     stats.value.performance_issues,
                     stats.value.accessibility_issues} :
              0 <= n /\ n <= stats.value.total_pages

\* Statistics of a page on the three thresholds and a page just beyond them.
C3_Witness ==
    /\ stats.status = "returned"
    /\ pages = <<ThresholdPage, JustOverPage>>
    /\ stats.value.high_complexity_pages = 1
    /\ stats.value.performance_issues = 1
    /\ stats.value.accessibility_issues = 1

\* C4: business_value_score is the sum of low=1, medium=2, high=3 over the
\* features divided by 3 * len(features), rounded to 2 decimals; it lies in
\* [0, 1], is 0 without features and 0.67 for [high, low].
C4_BusinessValueScore ==
    stats.status = "returned" =>
        LET values == [i \in DOMAIN features |-> features[i].business_value]
        IN  /\ features = <<>> => stats.value.business_value_score = 0
            /\ (features # <<>> /\ \A i \in DOMAIN values : values[i] \in KnownLabels)
                  => NearestHundredth(stats.value.business_value_score,
                         100 * SumSeq([i \in DOMAIN values |-> LabelValue(values[i])]),
                         3 * Len(features))
            /\ 0 <= stats.value.business_value_score
            /\ stats.value.business_value_score <= 100
            /\ values = <<"high", "low">> => stats.value.business_value_score = 67

\* Statistics of the feature list [high, low].
C4_Witness ==
    /\ stats.status = "returned"
    /\ Len(features) = 2
    /\ features[1].business_value = "high" /\ features[2].business_value = "low"
    /\ stats.value.business_value_score = 67

\* C5: for priorities in 1..5 the aggregator's roi_score is the sum of
\* priority * impact (low=1, medium=2, high=3) divided by len * 5 * 3, rounded
\* to 2 decimals, and lies in [0, 1]; it is 0 without best practices and 1.0
\* for one best practice of priority 5 and impact high.
C5_AggregatorRoiScore ==
    stats.status = "returned" =>
        /\ best_practices = <<>> => stats.value.roi_score = 0
        /\ (best_practices # <<>>
              /\ \A i \in DOMAIN best_practices : best_practices[i].priority \in 1..5)
              => /\ 0 <= stats.value.roi_score /\ stats.value.roi_score <= 100
                 /\ (\A i \in DOMAIN best_practices :
                        best_practices[i].business_impact \in KnownLabels)
                      => NearestHundredth(stats.value.roi_score,
                             100 * SumSeq([i \in DOMAIN best_practices |->
                                      best_practices[i].priority
                                        * LabelValue(best_practices[i].business_impact)]),
                             Len(best_practices) * 15)
        /\ (Len(best_practices) = 1 /\ best_practices[1].priority = 5
              /\ best_practices[1].business_impact = "high")
              => stats.value.roi_score = 100

\* Statistics of the single best practice of priority 5 and impact high.
C5_Witness ==
    /\ stats.status = "returned"
    /\ best_practices = <<ImplementRBAC>>
    /\ stats.value.roi_score = 100

-----------------------------------------------------------------------------
(* Properties of the risk assessment *)

\* The items of the risk assessment that stand for pages, bucket by bucket.
PageItems(bucket) ==
    SelectSeq(risk_assessment.value[bucket], LAMBDA item : item.type = "page")

AllPageItems ==
    PageItems("high_risk_items") \o PageItems("medium_risk_items")
        \o PageItems("low_risk_items")

\* The pages a risk item stands for: those that carry its name.
PagesNamed(name) == {pages[i] : i \in {j \in DOMAIN pages : pages[j].title = name}}

\* The penalties of a page, in tenths: one term per condition.
PenaltySum(page) ==
    (IF page.load_time > 300 THEN 3 ELSE 0)
    + (IF page.complexity_score > 70 THEN 3 ELSE 0)
    + (IF page.technical_debt > 50 THEN 2 ELSE 0)
    + (IF page.mobile_friendly THEN 0 ELSE 1)
    + (IF page.accessibility_score < 80 THEN 1 ELSE 0)

\* C6: the risk score of a page is the sum of the penalties whose condition
\* holds (load_time > 3.0: 0.3, complexity_score > 0.7: 0.3, technical_debt >
\* 0.5: 0.2, not mobile_friendly: 0.1, accessibility_score < 0.8: 0.1), 0.0
\* when none holds, within [0, 1], and 1.0 for the page {4.0 s, complexity
\* 0.9, accessibility 0.6, not mobile friendly, technical debt 0.72}.
C6_PageRiskIsPenaltySum ==
    risk_assessment.status = "returned" =>
        \A k \in DOMAIN AllPageItems :
            LET item == AllPageItems[k]
            IN  /\ PagesNamed(item.name) # {}
                /\ \A page \in PagesNamed(item.name) :
                      /\ item.risk_score = PenaltySum(page)
                      /\ (/\ page.load_time <= 300 /\ page.complexity_score <= 70
                          /\ page.technical_debt <= 50 /\ page.mobile_friendly
                          /\ page.accessibility_score >= 80) => item.risk_score = 0
                      /\ (/\ page.load_time = 400 /\ page.complexity_score = 90
                          /\ page.accessibility_score = 60 /\ ~page.mobile_friendly
                          /\ page.technical_debt = 72) => item.risk_score = 10
                /\ 0 <= item.risk_score /\ item.risk_score <= 10

\* A risk assessment that holds the page of the example with a score of 1.0
\* and a page without any penalty with a score of 0.0.
C6_Witness ==
    /\ risk_assessment.status = "returned"
    /\ \E k \in DOMAIN AllPageItems :
          AllPageItems[k].name = ScenarioPage.title /\ AllPageItems[k].risk_score = 10
    /\ \E k \in DOMAIN AllPageItems :
          AllPageItems[k].name = CleanPage.title /\ AllPageItems[k].risk_score = 0

\* The condition a risk_factors label names, and the penalty it stands for.
LabelHolds(label, page) ==
    CASE label = "High load time" -> page.load_time > 300
      [] label = "High complexity" -> page.complexity_score > 70
      [] label = "Technical debt" -> page.technical_debt > 50
      [] label = "Mobile unfriendly" -> ~page.mobile_friendly
      [] label = "Accessibility issues" -> page.accessibility_score < 80
      [] OTHER -> FALSE

LabelPenalty(label) ==
    CASE label \in {"High load time", "High complexity"} -> 3
      [] label = "Technical debt" -> 2
      [] OTHER -> 1

RiskLabels ==
    {"High load time", "High complexity", "Technical debt", "Mobile unfriendly",
     "Accessibility issues"}

\* C7: every page of the session is exactly one risk item of exactly one of
\* high_risk_items, medium_risk_items and low_risk_items: high for a score >=
\* 0.7, medium for a score >= 0.4 and < 0.7, low otherwise; and the
\* risk_factors of the item are exactly the conditions that added a penalty
\* to its score.
C7_RiskBucketsPartitionPages ==
    risk_assessment.status = "returned" =>
        /\ Len(AllPageItems) = Len(pages)
        /\ \A page \in {pages[i] : i \in DOMAIN pages} :
              Cardinality({k \in DOMAIN AllPageItems : AllPageItems[k].name = page.title})
                = Cardinality({i \in DOMAIN pages : pages[i].title = page.title})
        /\ \A k \in DOMAIN PageItems("high_risk_items") :
              PageItems("high_risk_items")[k].risk_score >= 7
        /\ \A k \in DOMAIN PageItems("medium_risk_items") :
              /\ PageItems("medium_risk_items")[k].risk_score >= 4
              /\ PageItems("medium_risk_items")[k].risk_score < 7
        /\ \A k \in DOMAIN PageItems("low_risk_items") :
              PageItems("low_risk_items")[k].risk_score < 4
        /\ \A k \in DOMAIN AllPageItems :
              LET item == AllPageItems[k]
                  listed == {item.risk_factors[n] : n \in DOMAIN item.risk_factors}
              IN  /\ Cardinality(listed) = Len(item.risk_factors)
                  /\ \A page \in PagesNamed(item.name) :
                        listed = {label \in RiskLabels : LabelHolds(label, page)}
                  /\ item.risk_score
                       = SumSeq([n \in DOMAIN item.risk_factors |->
                                    LabelPenalty(item.risk_factors[n])])

\* A risk assessment with a page in each bucket, two of them with a score on
\* a threshold (0.7 and 0.4).
C7_Witness ==
    /\ risk_assessment.status = "returned"
    /\ \E k \in DOMAIN PageItems("high_risk_items") :
          PageItems("high_risk_items")[k].risk_score = 7
    /\ \E k \in DOMAIN PageItems("medium_risk_items") :
          PageItems("medium_risk_items")[k].risk_score = 4
    /\ \E k \in DOMAIN PageItems("low_risk_items") :
          PageItems("low_risk_items")[k].risk_factors = <<"Accessibility issues">>

-----------------------------------------------------------------------------
(* Properties of the compliance summary *)

\* One dimension of the compliance summary states the fraction of the pages
\* that meet its condition, and splits the pages in two.
DimensionHolds(rate, compliant, non_compliant, P(_)) ==
    /\ compliant = Cardinality(PagesWhere(P))
    /\ compliant + non_compliant = Len(pages)
    /\ rate = IF pages = <<>> THEN Frac(0, 1) ELSE Frac(compliant, Len(pages))
    /\ rate.den > 0 /\ 0 <= rate.num /\ rate.num <= rate.den

\* C8: each compliance rate (accessibility_score >= 0.8, mobile_friendly,
\* load_time <= 3.0) is the number of pages that meet the condition divided by
\* the number of pages, lies in [0, 1] and is 0 for no pages; the compliant
\* and the non-compliant count of a dimension add up to the number of pages.
C8_ComplianceRates ==
    compliance_summary.status # "not_called" =>
        /\ compliance_summary.status = "returned"
        /\ LET c == compliance_summary.value.accessibility_compliance
           IN  DimensionHolds(c.compliance_rate, c.wcag_aa_compliant,
                              c.wcag_aa_non_compliant,
                              LAMBDA p : p.accessibility_score >= 80)
        /\ LET c == compliance_summary.value.mobile_compliance
           IN  DimensionHolds(c.compliance_rate, c.mobile_friendly,
                              c.mobile_unfriendly, LAMBDA p : p.mobile_friendly)
        /\ LET c == compliance_summary.value.performance_compliance
           IN  DimensionHolds(c.compliance_rate, c.under_3s, c.over_3s,
                              LAMBDA p : p.load_time <= 300)

\* A compliance summary of pages of which, in every dimension, some comply
\* and some do not, one of them on the thresholds 0.8 or 3.0 s.
C8_Witness ==
    /\ compliance_summary.status = "returned"
    /\ \E i \in DOMAIN pages : pages[i].load_time = 300
    /\ \E i \in DOMAIN pages : pages[i].accessibility_score = 80
    /\ compliance_summary.value.accessibility_compliance.compliance_rate.num
         \in 1..(Len(pages) - 1)
    /\ compliance_summary.value.mobile_compliance.compliance_rate.num
         \in 1..(Len(pages) - 1)
    /\ compliance_summary.value.performance_compliance.compliance_rate.num
         \in 1..(Len(pages) - 1)

-----------------------------------------------------------------------------
(* Properties of the ROI analysis *)

\* "$<digits and commas>": one amount of a cost range.
IsAmount(s) ==
    /\ Len(s) >= 2
    /\ s[1] = "$"
    /\ s[2] \in Digits
    /\ \A i \in 2..Len(s) : s[i] \in Digits \cup {","}

\* The positions at which s splits into "$<low>", " - " and "$<high>".
RangeSplits(s) ==
    {i \in 2..(Len(s) - 3) :
        /\ SubSeq(s, i, i + 2) = <<" ", "-", " ">>
        /\ IsAmount(SubSeq(s, 1, i - 1))
        /\ IsAmount(SubSeq(s, i + 3, Len(s)))}

\* s has the form "$<low> - $<high>".
IsCostRange(s) == RangeSplits(s) # {}

\* The number <low> of a cost range.
LowerBound(s) ==
    LET i == CHOOSE j \in RangeSplits(s) : TRUE
    IN  digits_value(SelectSeq(SubSeq(s, 1, i - 1), LAMBDA c : c \in Digits))

\* C9: the ROI analysis adds, for every best practice whose cost_estimate has
\* the form "$<low> - $<high>", the number <low> to total_estimated_cost, so
\* that total_estimated_cost is the sum of the lower bounds of the best
\* practices of the report.
C9_TotalCostIsSumOfLowerBounds ==
    (/\ roi_analysis.status # "not_called"
     /\ \A i \in DOMAIN best_practices : IsCostRange(best_practices[i].cost_estimate))
        => /\ roi_analysis.status = "returned"
           /\ roi_analysis.value.total_estimated_cost
                = SumSeq([i \in DOMAIN best_practices |->
                             LowerBound(best_practices[i].cost_estimate)])

\* C10: a cost_estimate that does not have the form "$<low> - $<high>" makes
\* the ROI analysis fail with a parsing error; the analysis never completes
\* with such an item counted as cost 0 (or as any other cost).
C10_MalformedCostRaises ==
    (/\ roi_analysis.status # "not_called"
     /\ \E i \in DOMAIN best_practices : ~IsCostRange(best_practices[i].cost_estimate))
        => roi_analysis.status = "raised"

-----------------------------------------------------------------------------
(* Properties of the ROI buckets *)

\* The impact multiplier low=1, medium=2, high=3, any other label 1.
ImpactMultiplier(label) == IF label \in KnownLabels THEN LabelValue(label) ELSE 1

\* Five times (priority / 5) * impact multiplier.
FiveTimesRoi(bp) == bp.priority * ImpactMultiplier(bp.business_impact)

\* The best practice belongs in the bucket: high from 3.0, medium from 1.5 up
\* to 3.0, low below.
BelongsInRoiBucket(bucket, bp) ==
    CASE bucket = "high_roi_opportunities" -> FiveTimesRoi(bp) >= 15
      [] bucket = "medium_roi_opportunities" ->
             2 * FiveTimesRoi(bp) >= 15 /\ FiveTimesRoi(bp) < 15
      [] bucket = "low_roi_opportunities" -> 2 * FiveTimesRoi(bp) < 15

RoiBucketNames ==
    {"high_roi_opportunities", "medium_roi_opportunities", "low_roi_opportunities"}

\* C11: in the ROI analysis each best practice gets roi_score = (priority / 5)
\* * impact multiplier (low=1, medium=2, high=3, any other label 1) and is
\* placed in exactly one opportunity bucket: high when roi_score >= 3.0, medium
\* when 1.5 <= roi_score < 3.0, low otherwise; a best practice with priority 5
\* and impact high has roi_score 3.0 and is in the high bucket.
C11_RoiScoreAndBucket ==
    roi_buckets # NotCalled =>
      /\ \A bucket \in RoiBucketNames :
           LET placed == roi_buckets[bucket]
               expected == SelectSeq(best_practices,
                                     LAMBDA bp : BelongsInRoiBucket(bucket, bp))
           IN  /\ Len(placed) = Len(expected)
               /\ \A i \in 1..Len(placed) :
                    /\ placed[i].title = expected[i].title
                    /\ placed[i].priority = expected[i].priority
                    /\ placed[i].business_impact = expected[i].business_impact
                    /\ placed[i].roi_score = FiveTimesRoi(expected[i])
      /\ Len(roi_buckets.high_roi_opportunities)
           + Len(roi_buckets.medium_roi_opportunities)
           + Len(roi_buckets.low_roi_opportunities) = Len(best_practices)
      /\ \A i \in DOMAIN best_practices :
           best_practices[i].priority = 5 /\ best_practices[i].business_impact = "high"
             => /\ \E k \in DOMAIN roi_buckets.high_roi_opportunities :
                     /\ roi_buckets.high_roi_opportunities[k].title
                          = best_practices[i].title
                     /\ roi_buckets.high_roi_opportunities[k].roi_score = 15
                /\ \A k \in DOMAIN roi_buckets.medium_roi_opportunities :
                     roi_buckets.medium_roi_opportunities[k].title
                       # best_practices[i].title
                /\ \A k \in DOMAIN roi_buckets.low_roi_opportunities :
                     roi_buckets.low_roi_opportunities[k].title
                       # best_practices[i].title

\* The analysis has sorted a priority-5, high-impact best practice, and every
\* bucket holds an item.
C11_Witness ==
    /\ roi_buckets # NotCalled
    /\ \E i \in DOMAIN best_practices :
         best_practices[i].priority = 5 /\ best_practices[i].business_impact = "high"
    /\ \A bucket \in RoiBucketNames : roi_buckets[bucket] # <<>>

\* The fixed benefit lookup of a known impact label.
BenefitOf(label) ==
    IF label = "low" THEN 10000 ELSE IF label = "medium" THEN 50000 ELSE 150000

\* What the analysis returned has the totals of the claim: the benefit is the
\* sum of the lookup over all best practices (stated for lists whose impact
\* labels are all known), and overall_roi is benefit / cost, or 0 for cost 0.
RoiTotalsAsStated(result) ==
    /\ (\A i \in DOMAIN best_practices :
            best_practices[i].business_impact \in KnownLabels)
         => result.total_estimated_benefit
              = SumSeq([i \in DOMAIN best_practices |->
                           BenefitOf(best_practices[i].business_impact)])
    /\ result.total_estimated_cost > 0
         => result.overall_roi
              = Frac(result.total_estimated_benefit, result.total_estimated_cost)
    /\ result.total_estimated_cost = 0 => result.overall_roi = Zero
    /\ best_practices = <<>>
         => result.total_estimated_cost = 0 /\ result.overall_roi = Zero

\* C12: in the ROI analysis total_estimated_benefit is the sum over all best
\* practices of the lookup low=10000, medium=50000, high=150000 applied to
\* business_impact, and overall_roi is total_estimated_benefit /
\* total_estimated_cost when the cost is positive and 0 when it is 0
\* (including the empty best-practice list).
\* It is stated for the cost estimates the spec takes as well formed, the ranges
\* '$low - $high'.
C12_BenefitAndOverallRoi ==
    /\ roi_analysis.status # "not_called"
    /\ \A i \in DOMAIN best_practices : IsCostRange(best_practices[i].cost_estimate)
    => /\ roi_analysis.status = "returned"
       /\ RoiTotalsAsStated(roi_analysis.value)

-----------------------------------------------------------------------------
(* The roadmap builders on a session's best practices *)

\* Best practices a caller may pass to a roadmap builder: the five the rules
\* build and the three of other priorities (1, 2 and 6).
RoadmapBestPractices ==
    SampleBestPractices \cup {StandardizeAPIDesign, AchieveWCAGCompliance}

InitRoadmap ==
    /\ pages = <<>>
    /\ features = <<>>
    /\ \E nb \in 0..MaxRecords : best_practices \in [1..nb -> RoadmapBestPractices]
    /\ fp_tie_up \in BOOLEAN
    /\ NothingCalled
    /\ WorkflowIdle
    /\ GeneratorIdle

GenerateImplementationRoadmap ==
    /\ implementation_roadmap'
         = Returned(_generate_implementation_roadmap(best_practices))
    /\ UNCHANGED <<inputs, generation, stats, other_stats, risk_assessment, roi_analysis,
                   roi_buckets, compliance_summary, report_roadmap, generator, workflow>>

\* The builder taking the best practices off the session's list as it goes.
GenerateReportRoadmapDraining ==
    /\ report_roadmap'
         = Returned(ReportGenerator_generate_implementation_roadmap(best_practices))
    /\ best_practices' = <<>>
    /\ UNCHANGED <<pages, features, fp_tie_up, generation, stats, other_stats,
                   risk_assessment, roi_analysis, roi_buckets,
                   compliance_summary, implementation_roadmap, generator, workflow>>

GenerateReportRoadmap ==
    /\ report_roadmap'
         = Returned(ReportGenerator_generate_implementation_roadmap(best_practices))
    /\ UNCHANGED <<inputs, generation, stats, other_stats, risk_assessment, roi_analysis,
                   roi_buckets, compliance_summary, implementation_roadmap,
                   generator, workflow>>

NextRoadmap ==
    \/ GenerateImplementationRoadmap
    \/ GenerateReportRoadmap

SpecRoadmap == InitRoadmap /\ [][NextRoadmap]_vars

-----------------------------------------------------------------------------
(* Properties of the roadmaps *)

RoadmapTiers == {"Immediate", "Short-term", "Medium-term", "Long-term", "Strategic"}

\* The tier of a priority: 5 Immediate, 4 Short-term, 3 Medium-term,
\* 2 Long-term, 1 or any other value Strategic.
TierOfPriority(priority) ==
    CASE priority = 5 -> "Immediate"
      [] priority = 4 -> "Short-term"
      [] priority = 3 -> "Medium-term"
      [] priority = 2 -> "Long-term"
      [] OTHER -> "Strategic"

\* The keys under which the roadmaps keep a tier.
TierKeys(tier) ==
    CASE tier = "Immediate" -> {"Immediate (0-30 days)", "immediate_actions"}
      [] tier = "Short-term" -> {"Short-term (1-3 months)", "short_term"}
      [] tier = "Medium-term" -> {"Medium-term (3-6 months)", "medium_term"}
      [] tier = "Long-term" -> {"Long-term (6+ months)", "long_term"}
      [] tier = "Strategic" -> {"strategic"}

\* The titles of the best practices of a tier, in the order of the input list.
TitlesOfTier(tier) ==
    LET chosen == SelectSeq(best_practices,
                            LAMBDA bp : TierOfPriority(bp.priority) = tier)
    IN  [i \in 1..Len(chosen) |-> chosen[i].title]

\* The titles the analyzer's roadmap lists under a tier (none without the key).
AnalyzerTitles(roadmap, tier) ==
    IF DOMAIN roadmap \cap TierKeys(tier) = {} THEN <<>>
    ELSE roadmap[CHOOSE key \in DOMAIN roadmap \cap TierKeys(tier) : TRUE]

\* The titles of the entries the report's roadmap lists under a tier.
ReportTitles(roadmap, tier) ==
    IF DOMAIN roadmap \cap TierKeys(tier) = {} THEN <<>>
    ELSE LET entries == roadmap[CHOOSE key \in DOMAIN roadmap \cap TierKeys(tier) : TRUE]
         IN  [i \in 1..Len(entries) |-> entries[i].title]

\* C13: every roadmap builder of the program (the analyzer's session roadmap
\* and the report generator's roadmap) assigns each best practice to a tier by
\* priority alone: 5 to Immediate, 4 to Short-term, 3 to Medium-term, 2 to
\* Long-term, and 1 or any other value to Strategic.
C13_TierByPriority ==
    /\ implementation_roadmap.status = "returned" =>
         \A tier \in RoadmapTiers :
           AnalyzerTitles(implementation_roadmap.value, tier) = TitlesOfTier(tier)
    /\ report_roadmap.status = "returned" =>
         \A tier \in RoadmapTiers :
           ReportTitles(report_roadmap.value, tier) = TitlesOfTier(tier)

\* The tiers of the report's roadmap as lists of titles.
TitlesOfEntries(roadmap) ==
    [key \in DOMAIN roadmap |->
        [i \in 1..Len(roadmap[key]) |-> roadmap[key][i].title]]

\* How many times x occurs in the list.
Occurrences(list, x) == Cardinality({i \in DOMAIN list : list[i] = x})

RECURSIVE TotalLength(_, _)
TotalLength(tiers, keys) ==
    IF keys = {} THEN 0
    ELSE LET key == CHOOSE k \in keys : TRUE
         IN  Len(tiers[key]) + TotalLength(tiers, keys \ {key})

RECURSIVE TotalOccurrences(_, _, _)
TotalOccurrences(tiers, keys, x) ==
    IF keys = {} THEN 0
    ELSE LET key == CHOOSE k \in keys : TRUE
         IN  Occurrences(tiers[key], x) + TotalOccurrences(tiers, keys \ {key}, x)

\* Every best practice is in exactly one tier, and one of priority 5 is in the
\* Immediate tier and in no other.
EachInOneTier(tiers, immediate) ==
    /\ TotalLength(tiers, DOMAIN tiers) = Len(best_practices)
    /\ \A i \in DOMAIN best_practices :
         LET title == best_practices[i].title
             same == {j \in DOMAIN best_practices : best_practices[j].title = title}
         IN  /\ TotalOccurrences(tiers, DOMAIN tiers, title) = Cardinality(same)
             /\ Cardinality({key \in DOMAIN tiers : Occurrences(tiers[key], title) > 0})
                  = 1
             /\ best_practices[i].priority = 5
                  => /\ immediate \in DOMAIN tiers
                     /\ Occurrences(tiers[immediate], title) = Cardinality(same)

\* C14: for any best-practice list and any integer priorities, every best
\* practice appears in exactly one roadmap bucket (the bucket sizes sum to the
\* length of the list), and a best practice with priority 5 appears in the
\* Immediate bucket and in no other bucket.
C14_EachBestPracticeInOneTier ==
    /\ implementation_roadmap.status = "returned"
         => EachInOneTier(implementation_roadmap.value, "Immediate (0-30 days)")
    /\ report_roadmap.status = "returned"
         => EachInOneTier(TitlesOfEntries(report_roadmap.value), "immediate_actions")

\* Both builders have run on a list with a best practice of priority 5, one
\* of a priority outside 1..5 and a third one.
C14_Witness ==
    /\ implementation_roadmap.status = "returned"
    /\ report_roadmap.status = "returned"
    /\ Len(best_practices) >= 3
    /\ \E i \in DOMAIN best_practices : best_practices[i].priority = 5
    /\ \E i \in DOMAIN best_practices : best_practices[i].priority \notin 1..5

\* l lists some of the elements of t, in the order t has them.
RECURSIVE InOrderOf(_, _)
InOrderOf(l, t) ==
    IF l = <<>> THEN TRUE
    ELSE IF t = <<>> THEN FALSE
    ELSE IF Head(l) = Head(t) THEN InOrderOf(Tail(l), Tail(t))
    ELSE InOrderOf(l, Tail(t))

InputTitles == [i \in DOMAIN best_practices |-> best_practices[i].title]

\* C15: within each roadmap tier the entries are in the same relative order as
\* the corresponding best practices in the input list.
C15_TierKeepsInputOrder ==
    /\ implementation_roadmap.status = "returned" =>
         \A key \in DOMAIN implementation_roadmap.value :
           InOrderOf(implementation_roadmap.value[key], InputTitles)
    /\ report_roadmap.status = "returned" =>
         \A key \in DOMAIN report_roadmap.value :
           InOrderOf(TitlesOfEntries(report_roadmap.value)[key], InputTitles)

\* Both builders have run and a tier of each holds two different best
\* practices.
C15_Witness ==
    /\ implementation_roadmap.status = "returned"
    /\ report_roadmap.status = "returned"
    /\ \E key \in DOMAIN implementation_roadmap.value :
         LET tier == implementation_roadmap.value[key]
         IN  Len(tier) >= 2 /\ tier[1] # tier[2]
    /\ \E key \in DOMAIN report_roadmap.value :
         LET tier == report_roadmap.value[key]
         IN  Len(tier) >= 2 /\ tier[1].title # tier[2].title

-----------------------------------------------------------------------------
(* The page generator called twice with the same arguments *)

\* Largest page_id given to the generator (the analyzer numbers its 30 pages
\* from 1).
MaxPageId == 30

\* Number of midnights the clock may pass.
MaxMidnights == 1

\* The date the clock shows at the start.
StartDate == [year |-> 2026, month |-> 1, day |-> 1]

InitGenerator ==
    /\ pages = <<>>
    /\ features = <<>>
    /\ best_practices = <<>>
    /\ fp_tie_up \in BOOLEAN
    /\ NothingCalled
    /\ WorkflowIdle
    /\ page_args \in [page_name : {GoalManagement, Onboarding, Feedback360},
                      module : {CoreHR, Performance},
                      page_id : 1..MaxPageId]
    /\ hash_order \in hash_orders(hashed_strings(page_args.page_name))
    /\ today = StartDate
    /\ first_page = NotCalled
    /\ second_page = NotCalled

CreatePageAnalysis ==
    /\ first_page' = Returned(_create_page_analysis(page_args.page_name,
                                                    page_args.module,
                                                    page_args.page_id))
    /\ UNCHANGED <<inputs, generation, stats, other_stats, risk_assessment, roi_analysis,
                   roi_buckets, compliance_summary, roadmaps,
                   page_args, hash_order, today, second_page, workflow>>

CreatePageAnalysisAgain ==
    /\ second_page' = Returned(_create_page_analysis(page_args.page_name,
                                                     page_args.module,
                                                     page_args.page_id))
    /\ UNCHANGED <<inputs, generation, stats, other_stats, risk_assessment, roi_analysis,
                   roi_buckets, compliance_summary, roadmaps,
                   page_args, hash_order, today, first_page, workflow>>

\* The program ends and is started again: str hashes get a new salt.
StartNewProcess ==
    /\ hash_order' \in hash_orders(hashed_strings(page_args.page_name))
    /\ UNCHANGED <<inputs, generation, stats, other_stats, risk_assessment, roi_analysis,
                   roi_buckets, compliance_summary, roadmaps,
                   page_args, today, first_page, second_page, workflow>>

\* The clock passes midnight.
PassMidnight ==
    /\ today.day < StartDate.day + MaxMidnights
    /\ today' = [today EXCEPT !.day = @ + 1]
    /\ UNCHANGED <<inputs, generation, stats, other_stats, risk_assessment, roi_analysis,
                   roi_buckets, compliance_summary, roadmaps,
                   page_args, hash_order, first_page, second_page, workflow>>

NextGenerator ==
    \/ CreatePageAnalysis
    \/ CreatePageAnalysisAgain
    \/ StartNewProcess
    \/ PassMidnight

SpecGenerator == InitGenerator /\ [][NextGenerator]_vars

\* C16: page generation is deterministic: two calls of _create_page_analysis
\* with the same (page_name, module, page_id), in the same or in different
\* runs, return records that are equal in every field, including keywords and
\* last_updated; no field depends on the clock, on process-specific hashing or
\* on other hidden state.
C16_SameArgumentsSameRecord ==
    first_page.status = "returned" /\ second_page.status = "returned"
      => first_page.value = second_page.value

-----------------------------------------------------------------------------
(* Aggregation called on two analyzers *)

\* _calculate_statistics on a second OracleHCMAnalyzer, with the same lists.
CalculateStatisticsOnOther ==
    /\ other_stats' = Returned(_calculate_statistics(pages, features, best_practices))
    /\ UNCHANGED <<inputs, generation, stats, risk_assessment, roi_analysis, roi_buckets,
                   compliance_summary, roadmaps, generator, workflow>>

NextInstances ==
    \/ CalculateStatistics
    \/ CalculateStatisticsOnOther

SpecInstances == Init /\ [][NextInstances]_vars

-----------------------------------------------------------------------------
(* Aggregation and all derived analyses on one session *)

InitSession ==
    /\ \E np \in 0..MaxRecords :
         \E nf \in 0..(MaxRecords - np) :
           \E nb \in 0..(MaxRecords - np - nf) :
             /\ pages \in [1..np -> {ScenarioPage, CleanPage}]
             /\ features \in [1..nf -> {f \in SampleFeatures :
                                          f.risk_level \in {"high", "medium"}}]
             /\ best_practices \in [1..nb -> {bp \in SampleBestPractices :
                                                bp.priority \in {1, 5}}]
    /\ fp_tie_up \in BOOLEAN
    /\ NothingCalled
    /\ WorkflowIdle
    /\ GeneratorIdle

NextSession ==
    \/ CalculateStatistics
    \/ GenerateImplementationRoadmap
    \/ GenerateReportRoadmap
    \/ GenerateRiskAssessment
    \/ GenerateRoiAnalysis
    \/ GenerateComplianceSummary

SpecSession == InitSession /\ [][NextSession]_vars

\* C18: aggregation and the derived analyses only read their inputs: after
\* _calculate_statistics, _generate_implementation_roadmap,
\* _generate_risk_assessment, _generate_roi_analysis and
\* _generate_compliance_summary, the pages, features and best_practices lists
\* have the same length, order and field values as before the call.
C18_InputsAreOnlyRead ==
    [][/\ pages' = pages
       /\ features' = features
       /\ best_practices' = best_practices]_vars

\* Every operation has been called on a session none of whose lists is empty.
C18_Witness ==
    /\ pages # <<>> /\ features # <<>> /\ best_practices # <<>>
    /\ stats.status = "returned"
    /\ implementation_roadmap.status = "returned"
    /\ report_roadmap.status = "returned"
    /\ risk_assessment.status = "returned"
    /\ roi_analysis.status # "not_called"
    /\ compliance_summary.status = "returned"

-----------------------------------------------------------------------------
(* The best-practice rules on a session's pages and features *)

\* The analyzer has its pages and features and has not yet generated the
\* best practices.
InitBestPractices ==
    /\ \E np \in 0..MaxRecords :
         \E nf \in 0..(MaxRecords - np) :
           /\ pages \in [1..np -> SamplePages]
           /\ features \in [1..nf -> SampleFeatures]
    /\ best_practices = <<>>
    /\ fp_tie_up \in BOOLEAN
    /\ NothingCalled
    /\ WorkflowIdle
    /\ GeneratorIdle

GenerateBestPractices ==
    /\ generation' = Returned(_generate_best_practices(pages, features))
    /\ best_practices' = _generate_best_practices(pages, features)
    /\ UNCHANGED <<pages, features, fp_tie_up, stats, other_stats,
                   risk_assessment, roi_analysis, roi_buckets,
                   compliance_summary, roadmaps, generator, workflow>>

NextBestPractices == GenerateBestPractices

SpecBestPractices == InitBestPractices /\ [][NextBestPractices]_vars

\* How many of the generated best practices carry the title.
Emitted(title) ==
    Cardinality({i \in DOMAIN best_practices : best_practices[i].title = title})

\* C19: for any page list, the generated best practices contain "Optimize Page
\* Load Times" exactly once if some page has load_time > 3.0 and not at all
\* otherwise, "Improve Mobile Responsiveness" exactly once if some page is not
\* mobile_friendly and not at all otherwise, and "Achieve WCAG 2.1 AA
\* Compliance" exactly once if some page has accessibility_score < 0.8 and not
\* at all otherwise; the number of pages that trigger a rule never changes how
\* many times it is emitted.
C19_PageRulesEmitOnce ==
    generation.status = "returned" =>
      /\ Emitted("Optimize Page Load Times")
           = IF PagesWhere(LAMBDA p : p.load_time > 300) # {} THEN 1 ELSE 0
      /\ Emitted("Improve Mobile Responsiveness")
           = IF PagesWhere(LAMBDA p : ~p.mobile_friendly) # {} THEN 1 ELSE 0
      /\ Emitted("Achieve WCAG 2.1 AA Compliance")
           = IF PagesWhere(LAMBDA p : p.accessibility_score < 80) # {} THEN 1 ELSE 0

\* The best practices were generated from pages two of which are slow and two
\* of which fall short on accessibility, one of them not mobile friendly.
C19_Witness ==
    /\ generation.status = "returned"
    /\ Cardinality(PagesWhere(LAMBDA p : p.load_time > 300)) >= 2
    /\ Cardinality(PagesWhere(LAMBDA p : p.accessibility_score < 80)) >= 2
    /\ PagesWhere(LAMBDA p : ~p.mobile_friendly) # {}
    /\ PagesWhere(LAMBDA p : p.load_time <= 300) # {}

CategoryOrder ==
    <<"Performance", "Security", "Usability", "Integration", "Accessibility">>

\* C20: for any pages and features lists, including both empty,
\* _generate_best_practices emits "Implement Role-Based Access Control"
\* (priority 5, impact high) and "Standardize API Design" (priority 4, impact
\* medium) exactly once each, so the result always has between 2 and 5 best
\* practices, in the fixed category order Performance, Security, Usability,
\* Integration, Accessibility; with an empty page list it has exactly these 2.
C20_FixedRulesAndOrder ==
    generation.status = "returned" =>
      /\ Emitted("Implement Role-Based Access Control") = 1
      /\ Emitted("Standardize API Design") = 1
      /\ \A i \in DOMAIN best_practices :
           /\ best_practices[i].title = "Implement Role-Based Access Control"
                => /\ best_practices[i].priority = 5
                   /\ best_practices[i].business_impact = "high"
           /\ best_practices[i].title = "Standardize API Design"
                => /\ best_practices[i].priority = 4
                   /\ best_practices[i].business_impact = "medium"
      /\ Len(best_practices) \in 2..5
      /\ InOrderOf([i \in DOMAIN best_practices |-> best_practices[i].category],
                   CategoryOrder)
      /\ pages = <<>> => Len(best_practices) = 2

\* The best practices were generated from no pages and no features.
C20_Witness ==
    /\ generation.status = "returned"
    /\ pages = <<>>
    /\ features = <<>>
    /\ Len(best_practices) = 2

-----------------------------------------------------------------------------
(* Accessibility as seen by the rules, the aggregation and the compliance
   summary of one session *)

NextAccessibility ==
    \/ GenerateBestPractices
    \/ CalculateStatistics
    \/ GenerateComplianceSummary

SpecAccessibility == InitBestPractices /\ [][NextAccessibility]_vars

\* The pages whose accessibility_score lies in [0.7, 0.8).
BetweenThresholds ==
    PagesWhere(LAMBDA p : p.accessibility_score >= 70 /\ p.accessibility_score < 80)

\* C27: for the same page list, the aggregation's accessibility_issues
\* (accessibility_score < 0.7) never exceeds the compliance summary's
\* wcag_aa_non_compliant count (accessibility_score < 0.8), and the two differ
\* exactly by the number of pages with accessibility_score in [0.7, 0.8); a
\* page with such a score is reported as non-compliant and triggers the WCAG
\* best practice without being counted as an accessibility issue.
C27_IssuesBelowNonCompliant ==
    /\ stats.status = "returned" /\ compliance_summary.status = "returned"
         => LET issues == stats.value.accessibility_issues
                non_compliant ==
                    compliance_summary.value.accessibility_compliance.wcag_aa_non_compliant
            IN  /\ issues <= non_compliant
                /\ non_compliant - issues = Cardinality(BetweenThresholds)
                /\ non_compliant
                     = Cardinality(PagesWhere(LAMBDA p : p.accessibility_score < 80))
                /\ issues
                     = Cardinality(PagesWhere(LAMBDA p : p.accessibility_score < 70))
    /\ generation.status = "returned" /\ BetweenThresholds # {}
         => Emitted("Achieve WCAG 2.1 AA Compliance") = 1

\* Rules, aggregation and compliance summary have run on pages of which one
\* scores in [0.7, 0.8), one below 0.7 and no other below 0.8.
C27_Witness ==
    /\ generation.status = "returned"
    /\ stats.status = "returned"
    /\ compliance_summary.status = "returned"
    /\ Cardinality(BetweenThresholds) = 1
    /\ stats.value.accessibility_issues = 1
    /\ compliance_summary.value.accessibility_compliance.wcag_aa_non_compliant = 2

-----------------------------------------------------------------------------
(* Feature items and the overall score of the risk assessment *)

\* The items of one bucket that stand for a feature, in bucket order.
FeatureItems(bucket) == SelectSeq(bucket, LAMBDA item : item.type = "feature")

HighRiskFeatures == SelectSeq(features, LAMBDA f : f.risk_level = "high")

-----------------------------------------------------------------------------
(* The ROI score of best practices with a priority of 1 to 5 *)

InPriorityRange(item) == item.priority \in 1..5

TopRoi(item) == item.priority = 5 /\ item.business_impact = "high"

\* C29: for best practices with integer priority in 1..5, the per-item ROI
\* score lies in [0.2, 3.0] and the high ROI bucket (score >= 3.0) contains
\* exactly the best practices with priority 5 and business_impact high; every
\* other combination of priority and impact lands in the medium or low bucket.
C29_RoiScoreRangeAndHighBucket ==
    roi_buckets # NotCalled =>
      LET high == SelectSeq(roi_buckets.high_roi_opportunities, InPriorityRange)
          others == SelectSeq(roi_buckets.medium_roi_opportunities
                               \o roi_buckets.low_roi_opportunities, InPriorityRange)
          ranged == SelectSeq(best_practices, InPriorityRange)
      IN  /\ \A i \in DOMAIN high :
               /\ high[i].roi_score = 15
               /\ TopRoi(high[i])
          /\ \A i \in DOMAIN others :
               /\ others[i].roi_score >= 1
               /\ others[i].roi_score < 15
               /\ ~TopRoi(others[i])
          /\ Len(high) = Len(SelectSeq(ranged, TopRoi))
          /\ Len(others) = Len(ranged) - Len(high)

\* The buckets hold a priority-5 high-impact best practice, one of priority 4
\* and high impact, and one whose impact label is outside the table.
C29_Witness ==
    /\ roi_buckets # NotCalled
    /\ \E i \in DOMAIN best_practices : TopRoi(best_practices[i])
    /\ \E i \in DOMAIN best_practices :
         /\ best_practices[i].priority = 4
         /\ best_practices[i].business_impact = "high"
    /\ \E i \in DOMAIN best_practices :
         /\ InPriorityRange(best_practices[i])
         /\ best_practices[i].business_impact \notin KnownLabels

-----------------------------------------------------------------------------
(* The label-based scores on labels outside low, medium, high *)

\* C30: the label-based scores never fail on an unknown label and never
\* reach 0 on non-empty input: a label outside {low, medium, high} counts as
\* 1 in the business value score, in the implementation effort score and in
\* the aggregated ROI score, so for any non-empty feature list both feature
\* scores are at least 0.33, and the two feature scores are equal whenever
\* every feature has business_value equal to implementation_effort.
C30_UnknownLabelCountsAsOne ==
    stats.status = "returned" =>
      /\ features # <<>> =>
           /\ stats.value.business_value_score >= 33
           /\ stats.value.implementation_effort_score >= 33
      /\ (\A i \in DOMAIN features :
            features[i].business_value \notin KnownLabels)
           => stats.value.business_value_score = (IF features = <<>> THEN 0 ELSE 33)
      /\ (\A i \in DOMAIN features :
            features[i].implementation_effort \notin KnownLabels)
           => stats.value.implementation_effort_score
                = (IF features = <<>> THEN 0 ELSE 33)
      /\ (\A i \in DOMAIN features :
            features[i].business_value = features[i].implementation_effort)
           => stats.value.business_value_score
                = stats.value.implementation_effort_score
      /\ (best_practices # <<>>
            /\ \A i \in DOMAIN best_practices : best_practices[i].priority >= 1)
           => stats.value.roi_score > 0
      /\ (best_practices # <<>>
            /\ \A i \in DOMAIN best_practices :
                 /\ best_practices[i].priority = 2
                 /\ best_practices[i].business_impact \notin KnownLabels)
           => stats.value.roi_score = 13

\* Statistics of a feature whose two labels are both outside the table and of
\* a best practice whose impact label is.
C30_Witness ==
    /\ stats.status = "returned"
    /\ Len(features) = 1
    /\ features[1].business_value \notin KnownLabels
    /\ features[1].implementation_effort \notin KnownLabels
    /\ stats.value.business_value_score = 33
    /\ stats.value.implementation_effort_score = 33
    /\ Len(best_practices) = 1
    /\ best_practices[1].business_impact \notin KnownLabels
    /\ stats.value.roi_score = 13

\* Statistics of two features that each carry the same label twice.
C30_WitnessEqualLabels ==
    /\ stats.status = "returned"
    /\ Len(features) = 2
    /\ \A i \in DOMAIN features :
         features[i].business_value = features[i].implementation_effort
    /\ stats.value.business_value_score = 67

-----------------------------------------------------------------------------
(* Ranges of the generated page *)

\* C23: for every page_id >= 1, the generated page satisfies the data-model
\* ranges: complexity_score in [0.1, 1.0], accessibility_score in [0.6, 1.0],
\* seo_score in [0.5, 1.0], load_time >= 0, and feature_count an integer
\* between 1 and 7.
C23_GeneratedPageInRange ==
    first_page.status = "returned" =>
      LET page == first_page.value
      IN  /\ page_args.page_id >= 1
          /\ page.complexity_score >= 10 /\ page.complexity_score <= 100
          /\ page.accessibility_score >= 60 /\ page.accessibility_score <= 100
          /\ page.seo_score >= 50 /\ page.seo_score <= 100
          /\ page.load_time >= 0
          /\ page.feature_count \in 1..7

\* The page of an id that is a multiple of 8, where the remainder taken for
\* feature_count is 0.
C23_Witness ==
    /\ first_page.status = "returned"
    /\ page_args.page_id = 16
    /\ first_page.value.feature_count = 1
    /\ first_page.value.complexity_score = 90

-----------------------------------------------------------------------------
(* OracleHCMAnalyzer.analyze_system, step by step *)

\* Number of salts a process may be started with, less one.
MaxSalt == 1

\* create_sample_analysis: the configuration of the sample session.
sample_config ==
    [system_name |-> "Oracle HCM Cloud",
     system_version |-> "22C",
     modules_to_analyze |->
         <<"Core HR", "Recruitment", "Performance", "Compensation", "Learning">>,
     analysis_depth |-> "comprehensive",
     include_performance_metrics |-> TRUE,
     include_security_analysis |-> TRUE,
     include_best_practices |-> TRUE,
     output_formats |-> <<"html", "markdown", "pdf">>,
     custom_metrics |-> <<>>]

\* hashlib.md5(f"{system_name}_{timestamp}".encode()).hexdigest()[:8], kept as
\* the text that is hashed.
_generate_session_id(config, now) == [md5_of |-> <<config.system_name, "_", now>>]

_generate_metadata(config, now) ==
    [title |-> <<config.system_name, " Analysis Report">>,
     version |-> "1.0.0",
     generated_at |-> now,
     analysis_config |-> config,
     platform_version |-> "1.0.0",
     analysis_engine |-> "Oracle HCM Analysis Platform"]

\* avg_complexity > 0.7 and avg_complexity < 0.3 are compared on the sum, and
\* len(high_value_features) > len(features) * 0.6 in tenths.
_generate_analysis_notes(ps, fs) ==
    LET total == SumSeq(Map(ps, LAMBDA p : p.complexity_score))
        high_value_features == SelectSeq(fs, LAMBDA f : f.business_value = "high")
    IN  (IF ps # <<>> /\ total > 70 * Len(ps)
         THEN <<"System shows high overall complexity, suggesting need for simplification">>
         ELSE IF ps # <<>> /\ total < 30 * Len(ps)
         THEN <<"System shows low complexity, potentially indicating underutilization of capabilities">>
         ELSE <<>>)
        \o (IF fs # <<>> /\ 10 * Len(high_value_features) > 6 * Len(fs)
            THEN <<"High proportion of high-business-value features indicates good strategic alignment">>
            ELSE <<>>)
        \o <<"Analysis completed using automated tools and industry best practices">>

_generate_recommendations_summary(bps) ==
    IF bps = <<>>
    THEN <<"No specific recommendations generated at this time.">>
    ELSE LET high_priority == SelectSeq(bps, LAMBDA bp : bp.priority >= 4)
             medium_priority == SelectSeq(bps, LAMBDA bp : bp.priority = 3)
             low_priority == SelectSeq(bps, LAMBDA bp : bp.priority <= 2)
         IN  <<"Generated ", Len(bps), " recommendations: ",
               Len(high_priority), " high priority, ",
               Len(medium_priority), " medium priority, ",
               Len(low_priority), " low priority. ",
               "Focus on high-priority items for immediate impact.">>

\* The words the page names of the session put in sets, each once, in the
\* order the names bring them up.
RECURSIVE session_words(_, _)
session_words(names, seen) ==
    IF names = <<>> THEN seen
    ELSE session_words(
             Tail(names),
             seen \o SelectSeq(keyword_candidates(Head(names).page_name),
                               LAMBDA word : \A i \in DOMAIN seen : seen[i] # word))

\* Two of the orders a process may iterate over those words in: the order of
\* first appearance and its reverse.
session_hash_orders ==
    LET order == session_words(module_pages_from(hcm_modules), <<>>)
    IN  {order, [i \in 1..Len(order) |-> order[Len(order) + 1 - i]]}

\* The first page from index k on for which range(page.feature_count) is not
\* empty, or one past the last page.
RECURSIVE next_feature_page(_, _)
next_feature_page(ps, k) ==
    IF k > Len(ps) THEN k
    ELSE IF ps[k].feature_count > 0 THEN k
    ELSE next_feature_page(ps, k + 1)

\* The outcomes of the report generator's analyses and of a second analyzer.
report_analyses ==
    <<other_stats, risk_assessment, roi_analysis, roi_buckets, compliance_summary,
      report_roadmap>>

\* The run of generate_reports.
report_run == <<report_files, reports_dir, reports>>

\* An analyzer has been constructed in a new process; analyze_system is about
\* to start.
InitAnalysis ==
    /\ pages = <<>>
    /\ features = <<>>
    /\ best_practices = <<>>
    /\ fp_tie_up \in BOOLEAN
    /\ NothingCalled
    /\ page_args = <<>>
    /\ hash_order \in session_hash_orders
    /\ today = StartDate
    /\ first_page = NotCalled
    /\ second_page = NotCalled
    /\ pc = "pages"
    /\ hash_salt \in 0..MaxSalt
    /\ loop_page_id = 1
    /\ loop_feature_id = 1
    /\ feature_loop = [page |-> 1, i |-> 0]
    /\ session = NotCalled
    /\ report_files = <<>>
    /\ reports_dir = {}
    /\ reports = NotCalled

\* One turn of the nested loops of _analyze_pages.
AnalyzePage ==
    /\ pc = "pages"
    /\ LET module_pages == module_pages_from(hcm_modules)
           turn == module_pages[Len(pages) + 1]
       IN  /\ pages' = Append(pages, _create_page_analysis(turn.page_name, turn.module,
                                                           loop_page_id))
           /\ loop_page_id' = loop_page_id + 1
           /\ pc' = IF Len(pages) + 1 = Len(module_pages)
                    THEN "common_features" ELSE "pages"
    /\ UNCHANGED <<features, best_practices, fp_tie_up, generation, stats,
                   implementation_roadmap, report_analyses, generator, hash_salt,
                   loop_feature_id, feature_loop, session, report_run>>

\* One turn of the loop of _analyze_features over common_features.
AnalyzeCommonFeature ==
    /\ pc = "common_features"
    /\ features' = Append(features,
                          _create_feature_analysis(common_features[Len(features) + 1],
                                                   loop_feature_id))
    /\ loop_feature_id' = loop_feature_id + 1
    /\ feature_loop' = IF Len(features) + 1 < Len(common_features) THEN feature_loop
                       ELSE [page |-> next_feature_page(pages, 1), i |-> 0]
    /\ pc' = IF Len(features) + 1 < Len(common_features) THEN "common_features"
             ELSE IF next_feature_page(pages, 1) <= Len(pages) THEN "page_features"
             ELSE "best_practices"
    /\ UNCHANGED <<pages, best_practices, fp_tie_up, generation, stats,
                   implementation_roadmap, report_analyses, generator, hash_salt,
                   loop_page_id, session, report_run>>

\* The loop counting one feature up for every two turns.
AnalyzePageFeatureEveryOther ==
    /\ pc = "page_features"
    /\ LET page == pages[feature_loop.page]
           i == feature_loop.i
           next_page == next_feature_page(pages, feature_loop.page + 1)
       IN  /\ features' = Append(features,
                                 _create_feature_analysis(page_feature_name(page, i),
                                                          loop_feature_id))
           /\ loop_feature_id' = loop_feature_id + (i % 2)
           /\ feature_loop' = IF i + 1 < page.feature_count
                              THEN [page |-> feature_loop.page, i |-> i + 1]
                              ELSE [page |-> next_page, i |-> 0]
           /\ pc' = IF i + 1 < page.feature_count \/ next_page <= Len(pages)
                    THEN "page_features" ELSE "best_practices"
    /\ UNCHANGED <<pages, best_practices, fp_tie_up, generation, stats,
                   implementation_roadmap, report_analyses, generator, hash_salt,
                   loop_page_id, session, report_run>>

\* One turn of the nested loops of _analyze_features over the pages and over
\* range(page.feature_count).
AnalyzePageFeature ==
    /\ pc = "page_features"
    /\ LET page == pages[feature_loop.page]
           i == feature_loop.i
           next_page == next_feature_page(pages, feature_loop.page + 1)
       IN  /\ features' = Append(features,
                                 _create_feature_analysis(page_feature_name(page, i),
                                                          loop_feature_id))
           /\ loop_feature_id' = loop_feature_id + 1
           /\ feature_loop' = IF i + 1 < page.feature_count
                              THEN [page |-> feature_loop.page, i |-> i + 1]
                              ELSE [page |-> next_page, i |-> 0]
           /\ pc' = IF i + 1 < page.feature_count \/ next_page <= Len(pages)
                    THEN "page_features" ELSE "best_practices"
    /\ UNCHANGED <<pages, best_practices, fp_tie_up, generation, stats,
                   implementation_roadmap, report_analyses, generator, hash_salt,
                   loop_page_id, session, report_run>>

\* best_practices = self._generate_best_practices(pages, features)
AnalyzeBestPractices ==
    /\ pc = "best_practices"
    /\ generation' = Returned(_generate_best_practices(pages, features))
    /\ best_practices' = _generate_best_practices(pages, features)
    /\ pc' = "statistics"
    /\ UNCHANGED <<pages, features, fp_tie_up, stats, implementation_roadmap,
                   report_analyses, generator, hash_salt, loop_page_id, loop_feature_id,
                   feature_loop, session, report_run>>

\* The statistics written back as the complexity scores of the pages.
AnalyzeStatisticsNormalising ==
    /\ pc = "statistics"
    /\ stats' = Returned(_calculate_statistics(pages, features, best_practices))
    /\ pages' = [i \in DOMAIN pages |->
                    [pages[i] EXCEPT !.complexity_score = stats'.value.average_complexity]]
    /\ pc' = "session"
    /\ UNCHANGED <<features, best_practices, fp_tie_up, generation,
                   implementation_roadmap, report_analyses, generator, hash_salt,
                   loop_page_id, loop_feature_id, feature_loop, session, report_run>>

\* stats = self._calculate_statistics(pages, features, best_practices)
AnalyzeStatistics ==
    /\ pc = "statistics"
    /\ stats' = Returned(_calculate_statistics(pages, features, best_practices))
    /\ pc' = "session"
    /\ UNCHANGED <<pages, features, best_practices, fp_tie_up, generation,
                   implementation_roadmap, report_analyses, generator, hash_salt,
                   loop_page_id, loop_feature_id, feature_loop, session, report_run>>

\* The session is put together, its last four fields by their helpers, and
\* returned.
CreateSession ==
    /\ pc = "session"
    /\ implementation_roadmap'
         = Returned(_generate_implementation_roadmap(best_practices))
    /\ session' = Returned(
           [session_id |-> _generate_session_id(sample_config, strftime(today)),
            timestamp |-> strftime(today),
            config |-> sample_config,
            pages |-> pages,
            features |-> features,
            best_practices |-> best_practices,
            stats |-> stats.value,
            metadata |-> _generate_metadata(sample_config, strftime(today)),
            analysis_notes |-> _generate_analysis_notes(pages, features),
            recommendations_summary |-> _generate_recommendations_summary(best_practices),
            implementation_roadmap |-> _generate_implementation_roadmap(best_practices)])
    /\ pc' = "returned"
    /\ UNCHANGED <<pages, features, best_practices, fp_tie_up, generation, stats,
                   report_analyses, generator, hash_salt, loop_page_id, loop_feature_id,
                   feature_loop, report_run>>

-----------------------------------------------------------------------------
(* ReportGenerator.generate_reports *)

\* Reading attributes of an object: an AttributeError unless the object has
\* every one of them.
getattrs(object, names) ==
    IF names \subseteq DOMAIN object THEN Returned(names) ELSE Raised("AttributeError")

\* The attribute reads of a report, in turn: the first that raises ends it.
RECURSIVE first_raised(_)
first_raised(reads) ==
    IF reads = <<>> THEN Returned(<<>>)
    ELSE IF Head(reads).status = "raised" THEN Head(reads)
    ELSE first_raised(Tail(reads))

\* str(self.reports_dir / name) for the default output directory.
report_path(name) == <<"output/reports", name>>

\* A report whose data is an arrangement of the attributes read; the data is
\* left out.
report_of(name, reads) == [path |-> report_path(name), data |-> first_raised(reads)]

_session_to_detailed_dict(s) ==
    first_raised(
        <<getattrs(s, {"session_id", "timestamp", "config"}),
          getattrs(s.config,
                   {"system_name", "system_version", "modules_to_analyze",
                    "analysis_depth", "include_performance_metrics",
                    "include_security_analysis", "include_best_practices"}),
          getattrs(s, {"stats"}),
          getattrs(s.stats,
                   {"total_pages", "total_features", "total_best_practices",
                    "average_complexity", "roi_score", "performance_score",
                    "security_score", "usability_score"}),
          getattrs(s, {"metadata", "analysis_notes", "recommendations_summary",
                       "implementation_roadmap", "risk_assessment",
                       "compliance_status"})>>)

_generate_dashboard_data(s) ==
    first_raised(
        <<getattrs(s, {"stats"}),
          getattrs(s.stats,
                   {"total_pages", "total_features", "total_best_practices",
                    "average_complexity", "roi_score", "performance_score",
                    "security_score"}),
          getattrs(s, {"best_practices", "pages"})>>)

\* The four files of _generate_csv_reports; none of the four helpers reads an
\* attribute of the session but the lists.
_generate_csv_reports(s) ==
    <<report_of("pages_analysis.csv", <<getattrs(s, {"pages"})>>),
      report_of("features_analysis.csv", <<getattrs(s, {"features"})>>),
      report_of("best_practices.csv", <<getattrs(s, {"best_practices"})>>),
      report_of("performance_metrics.csv", <<getattrs(s, {"pages"})>>)>>

_generate_json_reports(s) ==
    <<[path |-> report_path("detailed_session_data.json"),
       data |-> _session_to_detailed_dict(s)],
      report_of("module_analysis.json", <<getattrs(s, {"pages"})>>),
      [path |-> report_path("risk_assessment.json"),
       data |-> Returned(_generate_risk_assessment(s.pages, s.features))],
      [path |-> report_path("roi_analysis.json"),
       data |-> _generate_roi_analysis(s.best_practices)]>>

_generate_summary_reports(s) ==
    <<[path |-> report_path("executive_dashboard.json"),
       data |-> _generate_dashboard_data(s)],
      report_of("kpi_summary.json", <<getattrs(s, {"pages", "best_practices"})>>),
      [path |-> report_path("compliance_summary.json"),
       data |-> Returned(_generate_compliance_summary(s.pages))]>>

_generate_comparison_reports(s) ==
    <<report_of("industry_benchmarks.json",
                <<getattrs(s, {"pages", "stats"}),
                  getattrs(s.stats, {"average_complexity"})>>),
      report_of("best_in_class_comparison.json",
                <<getattrs(s, {"pages", "stats"}),
                  getattrs(s.stats, {"average_complexity"})>>)>>

_generate_action_reports(s) ==
    <<[path |-> report_path("implementation_roadmap.json"),
       data |-> Returned(ReportGenerator_generate_implementation_roadmap(
                             s.best_practices))],
      report_of("action_items.json", <<getattrs(s, {"best_practices"})>>),
      report_of("resource_requirements.json", <<getattrs(s, {"best_practices"})>>)>>

\* One of the five steps: its reports are made and written one after the
\* other, and the first that raises ends the step with the files so far on
\* disk.
RECURSIVE run_reports(_, _)
run_reports(sub_reports, files) ==
    IF sub_reports = <<>> THEN [files |-> files, outcome |-> Returned(files)]
    ELSE IF Head(sub_reports).data.status = "raised"
    THEN [files |-> files, outcome |-> Head(sub_reports).data]
    ELSE run_reports(Tail(sub_reports), Append(files, Head(sub_reports).path))

\* The steps of generate_reports from the first of steps on: a step that
\* returns extends report_files, a step that raises ends the call.  written is
\* all that was written to disk.
RECURSIVE run_steps(_, _, _)
run_steps(steps, files, written) ==
    IF steps = <<>>
    THEN [report_files |-> files, written |-> written, outcome |-> Returned(files)]
    ELSE LET run == run_reports(Head(steps), <<>>)
         IN  IF run.outcome.status = "raised"
             THEN [report_files |-> files, written |-> written \o run.files,
                   outcome |-> run.outcome]
             ELSE run_steps(Tail(steps), files \o run.files, written \o run.files)

\* The five steps in the order of the try block.
generate_reports(s) ==
    run_steps(<<_generate_csv_reports(s), _generate_json_reports(s),
                _generate_summary_reports(s), _generate_comparison_reports(s),
                _generate_action_reports(s)>>, <<>>, <<>>)

\* The file was written, so the helper called after it was called as well.
was_written(run, name) == \E i \in DOMAIN run.written : run.written[i] = report_path(name)

\* generate_reports is called with the session analyze_system returned.  The
\* analyses its helpers make are kept as far as the call got.
GenerateReports ==
    /\ pc = "returned"
    /\ LET s == session.value
           run == generate_reports(s)
       IN  /\ report_files' = run.report_files
           /\ reports_dir' = reports_dir \cup {run.written[i] : i \in DOMAIN run.written}
           /\ reports' = run.outcome
           /\ pc' = IF run.outcome.status = "raised" THEN "raised" ELSE "done"
           /\ risk_assessment'
                = IF was_written(run, "module_analysis.json")
                  THEN Returned(_generate_risk_assessment(s.pages, s.features))
                  ELSE risk_assessment
           /\ roi_analysis'
                = IF was_written(run, "risk_assessment.json")
                  THEN _generate_roi_analysis(s.best_practices)
                  ELSE roi_analysis
           /\ roi_buckets'
                = IF was_written(run, "risk_assessment.json")
                  THEN roi_opportunities(empty_roi_data, s.best_practices)
                  ELSE roi_buckets
           /\ compliance_summary'
                = IF was_written(run, "kpi_summary.json")
                  THEN Returned(_generate_compliance_summary(s.pages))
                  ELSE compliance_summary
           /\ report_roadmap'
                = IF was_written(run, "best_in_class_comparison.json")
                  THEN Returned(ReportGenerator_generate_implementation_roadmap(
                                    s.best_practices))
                  ELSE report_roadmap
    /\ UNCHANGED <<inputs, generation, stats, implementation_roadmap, other_stats,
                   generator, hash_salt, loop_page_id, loop_feature_id,
                   feature_loop, session>>

\* One run of the application on the sample configuration.
NextAnalysis ==
    \/ AnalyzePage
    \/ AnalyzeCommonFeature
    \/ AnalyzePageFeature
    \/ AnalyzeBestPractices
    \/ AnalyzeStatistics
    \/ CreateSession
    \/ GenerateReports

SpecAnalysis == InitAnalysis /\ [][NextAnalysis]_vars

-----------------------------------------------------------------------------
(* Properties of the analysis session *)

\* technical_debt is complexity_score * 0.8 rounded to 2 decimals.
DebtFollowsComplexity(page) ==
    NearestHundredth(page.technical_debt, 8 * page.complexity_score, 10)

\* C21: in every state of an analysis session, every page satisfies
\* technical_debt = complexity_score * 0.8 rounded to 2 decimals: the
\* generator sets it so at creation and no later step of analyze_system or of
\* report generation changes technical_debt or complexity_score.
C21_TechnicalDebtFollowsComplexity ==
    [][/\ Len(pages') >= Len(pages)
       /\ \A i \in DOMAIN pages :
            /\ pages'[i].technical_debt = pages[i].technical_debt
            /\ pages'[i].complexity_score = pages[i].complexity_score
       /\ \A i \in DOMAIN pages' : DebtFollowsComplexity(pages'[i])
       /\ session'.status = "returned" =>
            /\ Len(session'.value.pages) = Len(pages')
            /\ \A i \in DOMAIN pages' :
                 /\ session'.value.pages[i].technical_debt = pages'[i].technical_debt
                 /\ session'.value.pages[i].complexity_score
                      = pages'[i].complexity_score]_vars

\* Report generation has run on a session whose pages carry a technical debt
\* of 0.6 for a complexity of 0.75 and of 0.08 for a complexity of 0.1.
C21_Witness ==
    /\ reports # NotCalled
    /\ Len(pages) = 30
    /\ pages[13].complexity_score = 75 /\ pages[13].technical_debt = 60
    /\ pages[18].complexity_score = 10 /\ pages[18].technical_debt = 8

\* The lists of the eight fields that follow the feature id.
LevelList == <<"low", "medium", "high">>

QualityList == <<"poor", "fair", "good", "excellent">>

TimelineList == <<"3 months", "6 months", "1 year", "2 years">>

\* The eight fields of a feature.
EightFields(f) ==
    <<f.complexity, f.business_value, f.implementation_effort,
      f.documentation_quality, f.testing_coverage, f.maintenance_effort,
      f.roi_timeline, f.risk_level>>

\* C22: for every feature id, _create_feature_analysis sets complexity,
\* business_value and implementation_effort to the element at index (id mod
\* 3) of [low, medium, high], and sets documentation_quality,
\* testing_coverage, maintenance_effort, roi_timeline and risk_level to the
\* element at index (id mod list length) of their fixed lists, so two
\* features whose ids are congruent modulo 12 get the same values in all
\* eight fields.  The feature at place id of the list has the id id.
C22_FeatureFieldsFollowId ==
    /\ \A id \in DOMAIN features :
         EightFields(features[id])
           = <<LevelList[(id % 3) + 1], LevelList[(id % 3) + 1],
               LevelList[(id % 3) + 1], QualityList[(id % 4) + 1],
               LevelList[(id % 3) + 1], LevelList[(id % 3) + 1],
               TimelineList[(id % 4) + 1], LevelList[(id % 3) + 1]>>
    /\ \A id \in DOMAIN features : \A other \in DOMAIN features :
         id % 12 = other % 12 => EightFields(features[id]) = EightFields(features[other])

\* The features of a session are complete; the features 1, 13 and 109 have
\* the same eight fields and feature 2 has others.
C22_Witness ==
    /\ generation.status = "returned"
    /\ Len(features) = 120
    /\ EightFields(features[1]) = EightFields(features[13])
    /\ EightFields(features[1]) = EightFields(features[109])
    /\ EightFields(features[1]) # EightFields(features[2])
    /\ features[1].name # features[13].name

\* C25: no page produced by the generator ever has load_time > 3.0, so in
\* every session returned by analyze_system stats.performance_issues is 0 and
\* the best practice "Optimize Page Load Times" is never present.
C25_NoSlowPageInSession ==
    /\ \A i \in DOMAIN pages : pages[i].load_time <= 300
    /\ stats.status = "returned" => stats.value.performance_issues = 0
    /\ \A i \in DOMAIN best_practices :
         best_practices[i].title # "Optimize Page Load Times"
    /\ session.status = "returned" =>
         /\ session.value.stats.performance_issues = 0
         /\ \A i \in DOMAIN session.value.pages :
              session.value.pages[i].load_time <= 300
         /\ \A i \in DOMAIN session.value.best_practices :
              session.value.best_practices[i].title # "Optimize Page Load Times"
         /\ \A tier \in DOMAIN session.value.implementation_roadmap :
              \A i \in DOMAIN session.value.implementation_roadmap[tier] :
                session.value.implementation_roadmap[tier][i]
                  # "Optimize Page Load Times"

\* A session has been returned whose slowest page, the 24th, loads in 2.9 s,
\* and whose best practices are the other four.
C25_Witness ==
    /\ session.status = "returned"
    /\ session.value.pages[24].load_time = 290
    /\ session.value.pages[25].load_time = 50
    /\ Len(session.value.best_practices) = 4
    /\ session.value.stats.performance_issues = 0

\* sum of feature_count over pages
RECURSIVE SumFeatureCount(_)
SumFeatureCount(ps) ==
    IF ps = <<>> THEN 0 ELSE Head(ps).feature_count + SumFeatureCount(Tail(ps))

\* C26: in every session returned by analyze_system the steps run in the
\* order pages, features, best practices, statistics, roadmap, and the parts
\* are mutually consistent: stats.total_pages = len(pages),
\* stats.total_features = len(features) = 12 + sum of feature_count over
\* pages, stats.total_best_practices = len(best_practices) = total number of
\* titles over all tiers of implementation_roadmap, and page ids and feature
\* ids were assigned consecutively from 1 in list order.
C26_StepsInOrderAndConsistent ==
    /\ loop_page_id = Len(pages) + 1
    /\ loop_feature_id = Len(features) + 1
    /\ features # <<>> => Len(pages) = 30
    /\ generation.status = "returned" =>
         Len(features) = 12 + SumFeatureCount(pages)
    /\ generation.status = "not_called" => best_practices = <<>>
    /\ stats.status = "returned" => generation.status = "returned"
    /\ implementation_roadmap.status = "returned" => stats.status = "returned"
    /\ session.status = "returned" <=> implementation_roadmap.status = "returned"
    /\ session.status = "returned" =>
         LET s == session.value
         IN  /\ s.pages = pages /\ s.features = features
             /\ s.best_practices = best_practices
             /\ s.stats = stats.value
             /\ s.implementation_roadmap = implementation_roadmap.value
             /\ s.stats.total_pages = Len(s.pages)
             /\ s.stats.total_features = Len(s.features)
             /\ Len(s.features) = 12 + SumFeatureCount(s.pages)
             /\ s.stats.total_best_practices = Len(s.best_practices)
             /\ Len(s.best_practices)
                  = TotalLength(s.implementation_roadmap,
                                DOMAIN s.implementation_roadmap)
             /\ \A i \in DOMAIN s.pages :
                  /\ s.pages[i].feature_count = (IF i % 8 = 0 THEN 1 ELSE i % 8)
                  /\ s.pages[i].mobile_friendly = (i % 3 # 0)
                  /\ s.pages[i].load_time = 50 + ((10 * i) % 250)
             /\ \A id \in DOMAIN s.features :
                  /\ s.features[id].risk_level = LevelList[(id % 3) + 1]
                  /\ s.features[id].roi_timeline = TimelineList[(id % 4) + 1]

\* A session of 30 pages, 120 features and 4 best practices in three tiers
\* has been returned.
C26_Witness ==
    /\ session.status = "returned"
    /\ session.value.stats.total_pages = 30
    /\ session.value.stats.total_features = 120
    /\ session.value.stats.total_best_practices = 4
    /\ Len(session.value.implementation_roadmap["Medium-term (3-6 months)"]) = 2
    /\ loop_feature_id = 121

\* The paths generate_reports returns when all five steps return.
AllReportFiles ==
    [i \in 1..16 |->
        report_path(<<"pages_analysis.csv", "features_analysis.csv",
                      "best_practices.csv", "performance_metrics.csv",
                      "detailed_session_data.json", "module_analysis.json",
                      "risk_assessment.json", "roi_analysis.json",
                      "executive_dashboard.json", "kpi_summary.json",
                      "compliance_summary.json", "industry_benchmarks.json",
                      "best_in_class_comparison.json",
                      "implementation_roadmap.json", "action_items.json",
                      "resource_requirements.json">>[i])]

\* C24: for a session returned by analyze_system, generate_reports runs its
\* five steps in the order CSV, JSON, summary, comparison, action, completes
\* without raising, and returns the paths of all generated report files;
\* every field of the session and of its stats that a report step reads is a
\* field the analyzer's AnalysisSession and SystemStats actually define.
C24_ReportsCompleteOnAnalyzerSession ==
    /\ reports.status # "raised"
    /\ reports.status = "returned" =>
         /\ reports.value = AllReportFiles
         /\ reports_dir = {AllReportFiles[i] : i \in DOMAIN AllReportFiles}
    /\ session.status = "returned" =>
         /\ _session_to_detailed_dict(session.value).status = "returned"
         /\ _generate_dashboard_data(session.value).status = "returned"

=============================================================================
